---- MODULE Spec2Model ----
(***************************************************************************)
(* Model of tests/vm.py: the lifecycle manager of the disposable FCOS test *)
(* VMs.  The state is the files the program keeps under .testenv (pid      *)
(* marker, boot-mode marker, console socket, disk images), the hypervisor  *)
(* processes it launched, and the position of the one invocation that is   *)
(* running.  Every command runs to completion before the next one starts;  *)
(* only stop is split into its polling steps, because the hypervisor it    *)
(* waits for runs concurrently with it.                                    *)
(***************************************************************************)
EXTENDS Integers, Sequences, FiniteSets, TLC

\* ---------------------------------------------------------------- bounds
\* Largest process id the operating system hands out in a behaviour.
MaxPid == 3

\* ------------------------------------------------------ program constants
\* a wait loop that gives up one iteration early
StopPolls_Short == 20 - 1

\* for _ in range(20) of VM.stop
StopPolls == 20
\* internal_ssh_port = 22 of the live medium
LiveSshPort == 22

\* VM_CONFIGS: the fields of VMConfig the operations read.
VM_CONFIGS ==
    [min  |-> [name |-> "min", port |-> 3021, has_data_disk |-> FALSE,
               second_nic |-> FALSE, ssh_port |-> 22],
     full |-> [name |-> "full", port |-> 3022, has_data_disk |-> TRUE,
               second_nic |-> TRUE, ssh_port |-> 2222]]

VMNames == DOMAIN VM_CONFIGS

\* longest timeout SSHClient.wait is called with, in seconds
MaxTimeout == 5
\* longest time one SSHClient.check takes, in ticks
MaxProbeTicks == 1
\* resolution of the clock: ticks in one second
TicksPerSecond == 2
\* a sleep of twice the interval
PollInterval_Long == 2 + 2
\* time.sleep(2) between two probes, in seconds
PollInterval == 2

\* longest list of templates the install action is given
MaxTemplates == 2
\* calls of TempFileManager.cleanup on one manager
MaxCleanups == 2

\* BootMode enum: member name -> value written to the state file.
BootMode == [LIVE |-> "live", DISK |-> "disk"]

Modes == DOMAIN BootMode

\* A file that does not exist.
NoFile == <<"<absent>">>

\* Python's None where a pid is expected (VM.pid) and where a port is.
NoPid == -1

NoPort == 0

\* Python's None where a boot mode is expected.
None == "<None>"

\* The text QEMU prints when the host port of hostfwd is already bound.
HostFwdMsg == "Could not set up host forwarding rule"

\* ----------------------------------------------------------------- text
\* Texts are sequences of one-character strings (pid file) or of words
\* (captured stderr); white space is " " and "\n".
IsSpace(c) == c \in {" ", "\n", "\t"}

RECURSIVE LStrip(_)
LStrip(s) == IF s # <<>> /\ IsSpace(Head(s)) THEN LStrip(Tail(s)) ELSE s

RECURSIVE RStrip(_)
RStrip(s) ==
    IF s # <<>> /\ IsSpace(s[Len(s)]) THEN RStrip(SubSeq(s, 1, Len(s) - 1)) ELSE s

\* str.strip()
Strip(s) == RStrip(LStrip(s))

Digits == <<"0", "1", "2", "3", "4", "5", "6", "7", "8", "9">>

IsDigit(c) == \E i \in 1..10 : Digits[i] = c

DigitVal(c) == (CHOOSE i \in 1..10 : Digits[i] = c) - 1

RECURSIVE DecVal(_)
DecVal(s) == IF s = <<>> THEN 0 ELSE 10 * DecVal(SubSeq(s, 1, Len(s) - 1)) + DigitVal(s[Len(s)])

\* int(text) without the strip
ParseInt_NoStrip(s) ==
    IF s # <<>> /\ \A i \in 1..Len(s) : IsDigit(s[i]) THEN DecVal(s) ELSE NoPid

\* int(text.strip()), None standing for the ValueError
ParseInt(s) ==
    LET t == Strip(s)
    IN IF t # <<>> /\ \A i \in 1..Len(t) : IsDigit(t[i]) THEN DecVal(t) ELSE NoPid

RECURSIVE IntToStr(_)
IntToStr(n) ==
    IF n < 10 THEN <<Digits[n + 1]>> ELSE IntToStr(n \div 10) \o <<Digits[(n % 10) + 1]>>

\* What QEMU writes to its -pidfile: the decimal pid and a newline.
PidText(p) == IntToStr(p) \o <<"\n">>

\* needle in text
Contains(text, needle) == \E i \in 1..Len(text) : text[i] = needle

\* ----------------------------------------------------------------- state
VARIABLES
    name,            \* the VM the invocations address (key of VM_CONFIGS)
    live_iso,        \* LIVE_ISO exists
    pid_file,        \* text of disks/<name>.pid, or NoFile
    state_file,      \* text of disks/<name>.state, or NoFile
    console_socket,  \* disks/<name>.sock exists
    system_disk,     \* disks/<name>-system.qcow2 exists
    data_disk,       \* disks/<name>-data.qcow2 exists
    alive,           \* pids of the live hypervisor processes of this VM
    next_pid,        \* pid the next launched hypervisor gets
    pc,              \* position of the running invocation, "idle" if none
    caller,          \* command the running invocation executes
    stop_pid,        \* local variable pid of VM.stop
    polls,           \* iterations of stop's wait loop that found the process alive
    saw_gone,        \* stop's wait loop left through break
    stop_path,       \* how the last command went through VM.stop, "none" if it did not
    act,             \* the step taken last
    req,             \* boot mode the last start or restart asked for, or None
    stderr,          \* standard error captured from the last launch
    err,             \* error the last command raised, or NoError
    launches,        \* hypervisor launches made by the last command
    cmd,             \* command lines the last command launched
    sigs,            \* signals the last stop sent, in order
    report,          \* lines the last status command printed for this VM
    disobeyed,       \* a hypervisor was still alive after SIGKILL and the final wait
    disk_log,        \* calls the last command made on the image files, in order
    now,             \* time.time(), in ticks
    wait,            \* SSHClient.wait: its position, locals and output
    disp,            \* CommandDispatcher.dispatch: its position, locals and output
    thr,             \* concurrent invocations on the VM: position and locals of each
    inst,            \* ActionModule.run of the install action: position, inputs, effects
    sess             \* the last VM.ssh / VM.console call: what it found, attached, raised

files == <<pid_file, state_file, console_socket, system_disk, data_disk>>

procs == <<alive, next_pid>>

env == <<name, live_iso>>

inv == <<pc, caller, stop_pid, polls, saw_gone, stop_path>>

hist == <<act, req, stderr, err, launches, cmd, sigs, report, disobeyed, disk_log>>

vars == <<name, live_iso, pid_file, state_file, console_socket, system_disk, data_disk,
          alive, next_pid, pc, caller, stop_pid, polls, saw_gone, stop_path,
          act, req, stderr, err, launches, cmd, sigs, report, disobeyed, disk_log,
          now, wait, disp, thr, inst, sess>>

\* what the operations of one VM read and write
vm_vars == <<env, files, procs, inv, hist>>

\* what the operations of one VM leave alone
aux == <<now, wait, disp, thr, inst, sess>>

Pids == 1..MaxPid

NoError == [kind |-> "none", port |-> NoPort, text |-> <<>>]

Error(k, p, t) == [kind |-> k, port |-> p, text |-> t]

\* ------------------------------------------------- properties of class VM
config == VM_CONFIGS[name]

\* VM.pid
Pid == IF pid_file = NoFile THEN NoPid ELSE ParseInt(pid_file)

\* ProcessRunner.is_running: kill -0 succeeds
RunnerIsRunning(p) == p \in alive

\* VM.is_running
IsRunning == IF Pid = NoPid THEN FALSE ELSE RunnerIsRunning(Pid)

\* DiskManager.exists / VM.disk_exists
DiskExists == system_disk

\* VM.status
Status ==
    IF IsRunning THEN "running"
    ELSE IF DiskExists THEN "stopped"
    ELSE "not_created"

\* VM.boot_mode: the enum member whose value is the stripped text, else None
BootModeOf ==
    IF state_file = NoFile THEN None
    ELSE LET t == Strip(state_file)
         IN IF Len(t) = 1 /\ \E m \in Modes : BootMode[m] = t[1]
            THEN CHOOSE m \in Modes : BootMode[m] = t[1]
            ELSE None

\* CommandDispatcher._print_status, the line of this VM
StatusLine ==
    [status |-> Status,
     port   |-> IF Status = "running" THEN config.port ELSE NoPort,
     mode   |-> IF Status = "running" /\ BootModeOf # None THEN BootMode[BootModeOf] ELSE None]

\* a command line that forwards to the configured guest port in every mode
BuildQemuCommand_ConfiguredPort(mode) ==
    [vm         |-> name,
     boot       |-> IF mode = "DISK" THEN "c" ELSE "d",
     cdrom      |-> mode # "DISK",
     hostfwd    |-> <<config.port, config.ssh_port>>,
     daemonize  |-> TRUE,
     data_drive |-> config.has_data_disk /\ data_disk,
     second_nic |-> config.second_nic]

\* VM._build_qemu_command: the arguments that depend on the mode, the
\* configuration and the files.
BuildQemuCommand(mode) ==
    LET internal_ssh_port == IF mode = "DISK" THEN config.ssh_port ELSE LiveSshPort
    IN [vm         |-> name,
        boot       |-> IF mode = "DISK" THEN "c" ELSE "d",
        cdrom      |-> mode # "DISK",
        hostfwd    |-> <<config.port, internal_ssh_port>>,
        daemonize  |-> TRUE,
        data_drive |-> config.has_data_disk /\ data_disk,
        second_nic |-> config.second_nic]

\* ------------------------------------------------------------ environment
\* Captured standard error of a failed hypervisor launch.
StderrTexts ==
    { <<>>,
      <<"\n">>,
      <<"qemu:", HostFwdMsg, "\n">>,
      <<"qemu:", "failed to initialize kvm", "\n">> }

\* The host port of hostfwd is bound while a hypervisor of this VM lives.
PortBound == alive # {}

\* ------------------------------------------------------ disks and markers
\* Path.unlink(missing_ok=True) of an image file that is there or not
Unlink(image, there) == [op |-> "unlink", image |-> image, done |-> there]

\* qemu-img create of an image file, exit status zero or not
QemuImg(image, ok) == [op |-> "qemu-img", image |-> image, done |-> ok]

\* The unlink calls of DiskManager.delete: the data image only when
\* DiskManager.data_disk is not None.
DeleteLog ==
    <<Unlink("system", system_disk)>> \o
    (IF config.has_data_disk THEN <<Unlink("data", data_disk)>> ELSE <<>>)

\* A command that does not call the DiskManager.
NoDisks == disk_log' = <<>>

\* a delete that unlinks the system image only
DisksDelete_SystemOnly ==
    /\ system_disk' = FALSE
    /\ data_disk' = data_disk
    /\ disk_log' = <<Unlink("system", system_disk)>>

\* DiskManager.delete
DisksDelete ==
    /\ system_disk' = FALSE
    /\ data_disk' = IF config.has_data_disk THEN FALSE ELSE data_disk
    /\ disk_log' = DeleteLog

\* a cleanup that forgets the pid file
CleanupStateFiles_KeepPid ==
    /\ state_file' = NoFile
    /\ UNCHANGED pid_file

\* VM._cleanup_state_files
CleanupStateFiles ==
    /\ state_file' = NoFile
    /\ pid_file' = NoFile

\* a cleanup that leaves the socket file
CleanupConsoleSocket_Keep == UNCHANGED console_socket

\* VM._cleanup_console_socket
CleanupConsoleSocket == console_socket' = FALSE

\* A command that does not call VM.stop: no pid read, no poll, no signal.
NoStop ==
    /\ stop_path' = "none"
    /\ stop_pid' = NoPid
    /\ polls' = 0
    /\ saw_gone' = FALSE
    /\ sigs' = <<>>

\* VM.stop returned before its wait loop: no poll, no signal.
NoSignal ==
    /\ stop_pid' = NoPid
    /\ polls' = 0
    /\ saw_gone' = FALSE
    /\ sigs' = <<>>

\* A command that does not call VM.start: nothing requested or launched.
NoStart ==
    /\ req' = None
    /\ stderr' = <<>>
    /\ launches' = 0
    /\ cmd' = <<>>

\* CommandDispatcher._print_status
StatusOp ==
    /\ UNCHANGED aux
    /\ NoDisks
    /\ pc = "idle"
    /\ act' = "status"
    /\ caller' = "status"
    /\ report' = <<StatusLine>>
    /\ err' = NoError
    /\ NoStart
    /\ NoStop
    /\ UNCHANGED <<env, files, procs, pc, disobeyed>>

\* a create that runs qemu-img without check=True
CreateOp_NoCheck ==
    /\ UNCHANGED aux
    /\ pc = "idle"
    /\ act' = "create"
    /\ caller' = "create"
    /\ CleanupStateFiles
    /\ \E sys_ok, data_ok \in BOOLEAN :
          /\ system_disk' = sys_ok
          /\ data_disk' = IF config.has_data_disk THEN data_ok ELSE data_disk
          /\ disk_log' = DeleteLog \o <<QemuImg("system", sys_ok)>> \o
                            (IF config.has_data_disk THEN <<QemuImg("data", data_ok)>> ELSE <<>>)
    /\ err' = NoError
    /\ NoStart
    /\ NoStop
    /\ UNCHANGED <<env, console_socket, procs, pc, report, disobeyed>>

\* VM.create_disks: _cleanup_state_files, then DiskManager.create (delete
\* the old images, qemu-img create of the system image, then of the data
\* image when configured; check=True raises on a nonzero exit).
CreateOp ==
    /\ UNCHANGED aux
    /\ pc = "idle"
    /\ act' = "create"
    /\ caller' = "create"
    /\ CleanupStateFiles
    /\ \/ /\ system_disk' = FALSE             \* system image: qemu-img fails
          /\ data_disk' = (~config.has_data_disk /\ data_disk)
          /\ disk_log' = DeleteLog \o <<QemuImg("system", FALSE)>>
          /\ err' = Error("CalledProcessError", NoPort, <<>>)
       \/ /\ ~config.has_data_disk            \* no data disk configured
          /\ system_disk' = TRUE
          /\ data_disk' = data_disk
          /\ disk_log' = DeleteLog \o <<QemuImg("system", TRUE)>>
          /\ err' = NoError
       \/ /\ config.has_data_disk             \* data image: qemu-img fails
          /\ system_disk' = TRUE
          /\ data_disk' = FALSE
          /\ disk_log' = DeleteLog \o <<QemuImg("system", TRUE), QemuImg("data", FALSE)>>
          /\ err' = Error("CalledProcessError", NoPort, <<>>)
       \/ /\ config.has_data_disk             \* both images created
          /\ system_disk' = TRUE
          /\ data_disk' = TRUE
          /\ disk_log' = DeleteLog \o <<QemuImg("system", TRUE), QemuImg("data", TRUE)>>
          /\ err' = NoError
    /\ NoStart
    /\ NoStop
    /\ UNCHANGED <<env, console_socket, procs, pc, report, disobeyed>>

\* a delete whose unlink raises on a missing system image
DeleteOp_Strict ==
    /\ UNCHANGED aux
    /\ pc = "idle"
    /\ act' = "delete"
    /\ caller' = "delete"
    /\ IF system_disk
       THEN /\ DisksDelete
            /\ CleanupStateFiles
            /\ CleanupConsoleSocket
            /\ err' = NoError
       ELSE /\ disk_log' = <<Unlink("system", FALSE)>>
            /\ err' = Error("FileNotFoundError", NoPort, <<>>)
            /\ UNCHANGED files
    /\ NoStart
    /\ NoStop
    /\ UNCHANGED <<env, procs, pc, report, disobeyed>>

\* VM.delete_disks
DeleteOp ==
    /\ UNCHANGED aux
    /\ pc = "idle"
    /\ act' = "delete"
    /\ caller' = "delete"
    /\ DisksDelete
    /\ CleanupStateFiles
    /\ CleanupConsoleSocket
    /\ err' = NoError
    /\ NoStart
    /\ NoStop
    /\ UNCHANGED <<env, procs, pc, report, disobeyed>>

\* --------------------------------------------------------------- VM.start
\* VM.start without the is_running test
StartCheck_NoRunning(mode) ==
    IF ~DiskExists THEN "disk_not_found"
    ELSE IF mode = "LIVE" /\ ~live_iso THEN "media_not_found"
    ELSE "launch"

\* VM.start without the disk_exists test
StartCheck_NoDisk(mode) ==
    IF IsRunning THEN "already_running"
    ELSE IF mode = "LIVE" /\ ~live_iso THEN "media_not_found"
    ELSE "launch"

\* VM.start testing the live medium before the system disk
StartCheck_MediaFirst(mode) ==
    IF IsRunning THEN "already_running"
    ELSE IF mode = "LIVE" /\ ~live_iso THEN "media_not_found"
    ELSE IF ~DiskExists THEN "disk_not_found"
    ELSE "launch"

\* The checks of VM.start before the launch, in the order of the code.
StartCheck(mode) ==
    IF IsRunning THEN "already_running"
    ELSE IF ~DiskExists THEN "disk_not_found"
    ELSE IF mode = "LIVE" /\ ~live_iso THEN "media_not_found"
    ELSE "launch"

\* The RuntimeError each failed check raises; none when already running.
StartCheckError(check) ==
    IF check = "disk_not_found" THEN Error("DiskNotFound", NoPort, <<>>)
    ELSE IF check = "media_not_found" THEN Error("MediaNotFound", NoPort, <<>>)
    ELSE NoError

\* a successful launch after which the boot mode is not saved
LaunchSucceeds_NoState(mode, p) ==
    /\ alive' = alive \cup {p}
    /\ next_pid' = p + 1
    /\ pid_file' = PidText(p)
    /\ console_socket' = TRUE
    /\ stderr' = <<>>
    /\ UNCHANGED state_file
    /\ err' = NoError

\* self._runner.run(cmd) returned 0: QEMU daemonized as process p, wrote
\* its pid file and opened the console socket; start saves the boot mode.
LaunchSucceeds(mode, p) ==
    /\ alive' = alive \cup {p}
    /\ next_pid' = p + 1
    /\ pid_file' = PidText(p)
    /\ console_socket' = TRUE
    /\ stderr' = <<>>
    /\ state_file' = <<BootMode[mode]>>
    /\ err' = NoError

\* a failed launch after which the pid file is not unlinked
LaunchFails_KeepPid(text, sock) ==
    LET stripped == IF text # <<>> THEN Strip(text) ELSE <<>>
    IN /\ UNCHANGED <<alive, next_pid, state_file, pid_file>>
       /\ stderr' = text
       /\ console_socket' = sock
       /\ err' = IF Contains(stripped, HostFwdMsg)
                 THEN Error("PortInUse", config.port, <<>>)
                 ELSE Error("LaunchFailed", NoPort, stripped)

\* self._runner.run(cmd) returned nonzero with text on standard error; the
\* failed QEMU may or may not have left its console socket.
LaunchFails(text, sock) ==
    LET stripped == IF text # <<>> THEN Strip(text) ELSE <<>>
    IN /\ UNCHANGED <<alive, next_pid, state_file>>
       /\ stderr' = text
       /\ pid_file' = NoFile
       /\ console_socket' = sock
       /\ err' = IF Contains(stripped, HostFwdMsg)
                 THEN Error("PortInUse", config.port, <<>>)
                 ELSE Error("LaunchFailed", NoPort, stripped)

\* VM.start
StartBody(mode) ==
    LET check == StartCheck(mode)
    IN /\ req' = mode
       /\ IF check # "launch"
          THEN /\ UNCHANGED <<files, procs>>
               /\ stderr' = <<>>
               /\ launches' = 0
               /\ cmd' = <<>>
               /\ err' = StartCheckError(check)
          ELSE /\ next_pid <= MaxPid
               /\ launches' = 1
               /\ cmd' = <<BuildQemuCommand(mode)>>
               /\ UNCHANGED <<system_disk, data_disk>>
               /\ \/ /\ ~PortBound
                     /\ LaunchSucceeds(mode, next_pid)
                  \/ \E text \in StderrTexts, sock \in BOOLEAN :
                        /\ PortBound => Contains(text, HostFwdMsg)
                        /\ LaunchFails(text, sock)

\* VM.start, invoked by StartCommand.execute
StartOp(mode) ==
    /\ UNCHANGED aux
    /\ NoDisks
    /\ pc = "idle"
    /\ act' = "start"
    /\ caller' = "start"
    /\ NoStop
    /\ UNCHANGED <<env, pc, report, disobeyed>>
    /\ StartBody(mode)

\* ---------------------------------------------------------------- VM.stop
\* Where the invocation goes when stop returns: restart goes on to start.
AfterStop(command) == IF command = "restart" THEN "restart_start" ELSE "idle"

\* VM.stop without the is_running test
StopCheck_NoLive ==
    IF Pid = NoPid THEN "no_pid" ELSE "signal"

\* The checks of VM.stop before it signals, in the order of the code.
StopCheck ==
    IF Pid = NoPid THEN "no_pid"
    ELSE IF ~IsRunning THEN "stale"
    ELSE "signal"

\* VM.stop up to the wait loop: read the pid, return if there is none,
\* clean up a stale marker, else send SIGTERM.
StopBody(command) ==
    LET pid == Pid
        check == StopCheck
    IN IF check = "no_pid"
       THEN /\ UNCHANGED files
            /\ NoSignal
            /\ stop_path' = check
            /\ pc' = AfterStop(command)
       ELSE IF check = "stale"
       THEN /\ CleanupStateFiles
            /\ CleanupConsoleSocket
            /\ UNCHANGED <<system_disk, data_disk>>
            /\ NoSignal
            /\ stop_path' = check
            /\ pc' = AfterStop(command)
       ELSE /\ sigs' = <<"TERM">>
            /\ stop_path' = check
            /\ stop_pid' = pid
            /\ polls' = 0
            /\ saw_gone' = FALSE
            /\ pc' = "poll"
            /\ UNCHANGED files

\* VM.stop, invoked by StopCommand.execute
StopOp ==
    /\ UNCHANGED aux
    /\ NoDisks
    /\ pc = "idle"
    /\ act' = "stop"
    /\ caller' = "stop"
    /\ err' = NoError
    /\ NoStart
    /\ UNCHANGED <<env, procs, report, disobeyed>>
    /\ StopBody("stop")

\* a wait loop that goes on while the process is alive, with no count
StopPoll_OpenEnded ==
    /\ UNCHANGED aux
    /\ UNCHANGED disk_log
    /\ pc = "poll"
    /\ act' = "poll"
    /\ IF ~IsRunning
       THEN /\ saw_gone' = TRUE
            /\ CleanupStateFiles
            /\ CleanupConsoleSocket
            /\ UNCHANGED <<system_disk, data_disk, polls>>
            /\ pc' = AfterStop(caller)
       ELSE /\ pc' = "poll"
            /\ UNCHANGED <<files, saw_gone, polls>>
    /\ UNCHANGED <<env, procs, caller, stop_pid, stop_path, req, stderr, err,
                   launches, cmd, sigs, report, disobeyed>>

\* One iteration of the wait loop: break and clean up when is_running is
\* false, else sleep; after StopPolls iterations the else clause follows.
StopPoll ==
    /\ UNCHANGED aux
    /\ UNCHANGED disk_log
    /\ pc = "poll"
    /\ act' = "poll"
    /\ IF ~IsRunning
       THEN /\ saw_gone' = TRUE
            /\ CleanupStateFiles
            /\ CleanupConsoleSocket
            /\ UNCHANGED <<system_disk, data_disk, polls>>
            /\ pc' = AfterStop(caller)
       ELSE /\ polls' = polls + 1
            /\ pc' = IF polls + 1 = StopPolls THEN "force" ELSE "poll"
            /\ UNCHANGED <<files, saw_gone>>
    /\ UNCHANGED <<env, procs, caller, stop_pid, stop_path, req, stderr, err,
                   launches, cmd, sigs, report, disobeyed>>

\* The else clause of the wait loop: SIGKILL, one more sleep, then the
\* cleanup.  The process is usually gone after the sleep; one that is
\* blocked in the kernel may still be there.
StopForce ==
    /\ UNCHANGED aux
    /\ UNCHANGED disk_log
    /\ pc = "force"
    /\ act' = "force"
    /\ sigs' = Append(sigs, "KILL")
    /\ \E gone \in BOOLEAN :
          /\ alive' = IF gone THEN alive \ {stop_pid} ELSE alive
          /\ disobeyed' = (disobeyed \/ stop_pid \in alive')
    /\ CleanupStateFiles
    /\ CleanupConsoleSocket
    /\ pc' = AfterStop(caller)
    /\ UNCHANGED <<env, system_disk, data_disk, next_pid, caller, stop_pid, polls,
                   saw_gone, stop_path, req, stderr, err, launches, cmd, report>>

\* -------------------------------------------------------------- VM.restart
\* a restart that calls stop whether or not the VM runs
RestartOp_AlwaysStop ==
    /\ UNCHANGED aux
    /\ NoDisks
    /\ pc = "idle"
    /\ act' = "restart"
    /\ caller' = "restart"
    /\ NoStop
    /\ UNCHANGED <<env, report, disobeyed>>
    /\ pc' = "stop_begin"
    /\ err' = NoError
    /\ NoStart
    /\ UNCHANGED <<files, procs>>

\* VM.restart, invoked by RestartCommand.execute: stop when running, then
\* start from the installed disk.
RestartOp ==
    /\ UNCHANGED aux
    /\ NoDisks
    /\ pc = "idle"
    /\ act' = "restart"
    /\ caller' = "restart"
    /\ NoStop
    /\ UNCHANGED <<env, report, disobeyed>>
    /\ IF IsRunning
       THEN /\ pc' = "stop_begin"
            /\ err' = NoError
            /\ NoStart
            /\ UNCHANGED <<files, procs>>
       ELSE /\ UNCHANGED pc
            /\ StartBody("DISK")

\* restart's call of self.stop()
RestartStop ==
    /\ UNCHANGED aux
    /\ UNCHANGED disk_log
    /\ pc = "stop_begin"
    /\ act' = "restart_stop"
    /\ UNCHANGED <<env, procs, caller, req, stderr, err, launches, cmd, report,
                   disobeyed>>
    /\ StopBody("restart")

\* restart's call of self.start(mode=BootMode.DISK) after stop returned
RestartStart ==
    /\ UNCHANGED aux
    /\ UNCHANGED disk_log
    /\ pc = "restart_start"
    /\ act' = "restart_start"
    /\ pc' = "idle"
    /\ UNCHANGED <<env, caller, stop_pid, polls, saw_gone, stop_path, sigs, report,
                   disobeyed>>
    /\ StartBody("DISK")

\* --------------------------------------------------------- the hypervisor
\* A hypervisor process ends: it handled SIGTERM, the guest powered off,
\* it crashed or someone killed it.  Its files stay behind.
HvExit(p) ==
    /\ UNCHANGED aux
    /\ UNCHANGED disk_log
    /\ p \in alive
    /\ alive' = alive \ {p}
    /\ act' = "hv_exit"
    /\ UNCHANGED <<env, files, next_pid, inv, req, stderr, err, launches, cmd, sigs,
                   report, disobeyed>>

\* ------------------------------------------------------------------- spec
\* No command has run yet.
InitInvocation ==
    /\ pc = "idle"
    /\ caller = "none"
    /\ stop_pid = NoPid
    /\ polls = 0
    /\ saw_gone = FALSE
    /\ stop_path = "none"
    /\ act = "init"
    /\ req = None
    /\ stderr = <<>>
    /\ err = NoError
    /\ launches = 0
    /\ cmd = <<>>
    /\ sigs = <<>>
    /\ report = <<>>
    /\ disobeyed = FALSE
    /\ disk_log = <<>>

\* An empty .testenv/disks and no hypervisor.
EmptyDisks ==
    /\ pid_file = NoFile
    /\ state_file = NoFile
    /\ console_socket = FALSE
    /\ system_disk = FALSE
    /\ data_disk = FALSE
    /\ alive = {}
    /\ next_pid = 1

\* SSHClient.wait has not been called.
WaitIdle ==
    [pc |-> "idle", timeout |-> 0, start |-> 0, probes |-> 0, dots |-> 0,
     spent |-> 0, shown |-> -1, raised |-> None, up |-> FALSE]

NoWait == now = 0 /\ wait = WaitIdle

\* The invocations that may run concurrently on one VM.
Threads == {1, 2}

\* An invocation that has not been made.
ThreadIdle ==
    [op |-> "none", pc |-> "idle", pid |-> NoPid, polls |-> 0, sigs |-> <<>>,
     raised |-> None, mode |-> None, launched |-> NoPid, pending |-> None,
     polled |-> {}, unlinked |-> NoPid]

NoThreads == thr = [t \in Threads |-> ThreadIdle]

\* No error raised by the install action.
NoFail == [kind |-> None, names |-> <<>>]

\* The install action has not been run.
InstallIdle ==
    [pc |-> "idle", force |-> FALSE, installed |-> FALSE, check_mode |-> FALSE,
     templates |-> <<>>, existing |-> {}, path |-> {},
     probed |-> FALSE, built |-> FALSE, temp_dir |-> FALSE, cleanups |-> 0,
     todo |-> <<>>, ignition_files |-> <<>>, commands |-> <<>>,
     put_files |-> 0, installs |-> 0, installed_now |-> FALSE,
     pending |-> NoFail, raised |-> NoFail,
     changed |-> FALSE, msg |-> None]

NoInstall == inst = InstallIdle

\* No ssh or console session asked for.
SessionIdle ==
    [op |-> "none", running |-> FALSE, socat |-> FALSE, socket |-> FALSE,
     attached |-> <<>>, header |-> FALSE, raised |-> None]

NoSession == sess = SessionIdle

\* The files of the configured VMs as the dispatcher's commands leave
\* them: for each VM the kinds of file present in .testenv/disks.
FileKinds == {"image", "marker"}

\* No error raised by dispatch.
NoDispatchError == [kind |-> None, about |-> None, names |-> <<>>]

\* CommandDispatcher.dispatch has not been called.
DispIdle(fs) ==
    [pc |-> "idle", command |-> None, target |-> None, resolved |-> <<>>,
     queue |-> <<>>, executed |-> <<>>, printed |-> <<>>,
     raised |-> NoDispatchError, fs |-> fs,
     machine |-> None, path |-> {}]

NoDispatch == disp = DispIdle([v \in VMNames |-> {}])

\* The program starts on an empty .testenv/disks; the live medium may or
\* may not have been staged.
Init ==
    /\ name \in VMNames
    /\ live_iso \in BOOLEAN
    /\ EmptyDisks
    /\ InitInvocation
    /\ NoWait
    /\ NoThreads
    /\ NoInstall
    /\ NoSession
    /\ NoDispatch

Next ==
    \/ StatusOp
    \/ CreateOp
    \/ DeleteOp
    \/ \E mode \in Modes : StartOp(mode)
    \/ StopOp
    \/ StopPoll
    \/ StopForce
    \/ RestartOp
    \/ RestartStop
    \/ RestartStart
    \/ \E p \in Pids : HvExit(p)

Spec == Init /\ [][Next]_vars

\* VM.stop is sequential code whose sleeps return: once it is in its wait
\* loop or at the else clause it takes its next step.
SpecStopRuns == Init /\ [][Next]_vars /\ WF_vars(StopPoll) /\ WF_vars(StopForce)

\* Marker texts an earlier run, a crash or an edit by hand can leave behind.
PidFileTexts == { NoFile, <<>>, <<"x", "\n">>, <<"1", "\n">>, <<" ", "1">> }

StateFileTexts == { NoFile, <<"live">>, <<"disk", "\n">>, <<"junk">> }

\* The program starts on whatever files are in .testenv/disks: any subset
\* of the markers and images, the pid marker parsable or not, the process
\* it names alive or not.
InitAnyFiles ==
    /\ name \in VMNames
    /\ live_iso \in BOOLEAN
    /\ pid_file \in PidFileTexts
    /\ state_file \in StateFileTexts
    /\ console_socket \in BOOLEAN
    /\ system_disk \in BOOLEAN
    /\ data_disk \in BOOLEAN
    /\ alive \in SUBSET {1}
    /\ next_pid = 2
    /\ InitInvocation
    /\ NoWait
    /\ NoThreads
    /\ NoInstall
    /\ NoSession
    /\ NoDispatch

SpecAnyFiles == InitAnyFiles /\ [][Next]_vars

\* -------------------------------------------------- VM.ssh / VM.console
\* VM.ssh: is_running is tested, then SSHClient.connect runs ssh
\* interactively.
Ssh(running) ==
    IF ~running
    THEN [SessionIdle EXCEPT !.op = "ssh", !.raised = "not running"]
    ELSE [SessionIdle EXCEPT !.op = "ssh", !.running = TRUE, !.attached = <<"ssh">>]

\* a console that looks for socat before it tests the VM
Console_ToolFirst(running, socat, socket) ==
    LET found == [SessionIdle EXCEPT !.op = "console", !.running = running,
                                     !.socat = socat, !.socket = socket]
    IN IF ~socat THEN [found EXCEPT !.raised = "socat not found"]
       ELSE IF ~running THEN [found EXCEPT !.raised = "not running"]
       ELSE IF ~socket THEN [found EXCEPT !.raised = "console socket not found"]
       ELSE [found EXCEPT !.header = TRUE, !.attached = <<"socat">>]

\* VM.console: is_running, then shutil.which("socat"), then
\* console_socket.exists(), each raising RuntimeError; then the header is
\* printed and socat runs interactively.
Console(running, socat, socket) ==
    LET found == [SessionIdle EXCEPT !.op = "console", !.running = running,
                                     !.socat = socat, !.socket = socket]
    IN IF ~running THEN [found EXCEPT !.raised = "not running"]
       ELSE IF ~socat THEN [found EXCEPT !.raised = "socat not found"]
       ELSE IF ~socket THEN [found EXCEPT !.raised = "console socket not found"]
       ELSE [found EXCEPT !.header = TRUE, !.attached = <<"socat">>]

\* VM.ssh, invoked by SSHCommand.execute
SshOp ==
    /\ pc = "idle"
    /\ sess' = Ssh(IsRunning)
    /\ UNCHANGED <<now, wait, disp, thr, inst, vm_vars>>

\* VM.console, invoked by ConsoleCommand.execute, on a host with or
\* without socat on PATH
ConsoleOp(socat) ==
    /\ pc = "idle"
    /\ sess' = Console(IsRunning, socat, console_socket)
    /\ UNCHANGED <<now, wait, disp, thr, inst, vm_vars>>

NextSessions ==
    \/ Next
    \/ SshOp
    \/ \E socat \in BOOLEAN : ConsoleOp(socat)

\* The sessions are asked for on whatever markers, socket and system
\* image are in .testenv/disks of the first VM, its hypervisor alive or not.
InitSessions ==
    /\ InitAnyFiles
    /\ name = "min"
    /\ live_iso
    /\ state_file \in {NoFile, <<"live">>}
    /\ ~data_disk

\* The operations of one VM with the two sessions among them.
SpecSessions == InitSessions /\ [][NextSessions]_vars

\* ---------------------------------------------------------- SSHClient.wait
\* int(time.time() - start): whole seconds elapsed since start
Elapsed == (now - wait.start) \div TicksPerSecond

\* VM.wait_ssh -> SSHClient.wait: progress_start, start = time.time()
WaitBegin ==
    /\ wait.pc = "idle"
    /\ \E timeout \in 0..MaxTimeout, up \in BOOLEAN :
          wait' = [WaitIdle EXCEPT !.pc = "test", !.timeout = timeout,
                                   !.start = now, !.up = up]
    /\ UNCHANGED <<now, vm_vars, disp, thr, inst, sess>>

\* while time.time() - start < timeout; on exit progress_end("timeout!")
\* and raise TimeoutError(f"SSH timeout after {timeout}s")
WaitTest ==
    /\ wait.pc = "test"
    /\ IF now - wait.start < wait.timeout * TicksPerSecond
       THEN wait' = [wait EXCEPT !.pc = "probe"]
       ELSE wait' = [wait EXCEPT !.pc = "timed_out", !.shown = wait.timeout,
                                 !.raised = "TimeoutError"]
    /\ UNCHANGED <<now, vm_vars, disp, thr, inst, sess>>

\* if self.check(): elapsed = int(time.time() - start);
\* progress_end(f"ready ({elapsed}s)"); return
WaitProbe ==
    /\ wait.pc = "probe"
    /\ \E took \in 0..MaxProbeTicks, ok \in BOOLEAN :
          /\ ok => wait.up
          /\ now' = now + took
          /\ wait' = [wait EXCEPT
                        !.probes = @ + 1,
                        !.spent = @ + took,
                        !.pc = IF ok THEN "ready" ELSE "sleep",
                        !.shown = IF ok THEN (now' - wait.start) \div TicksPerSecond
                                  ELSE @]
    /\ UNCHANGED <<vm_vars, disp, thr, inst, sess>>

\* a sleep that prints no progress dot
WaitSleep_NoDot ==
    /\ wait.pc = "sleep"
    /\ now' = now + PollInterval * TicksPerSecond
    /\ wait' = [wait EXCEPT !.pc = "test"]
    /\ UNCHANGED <<vm_vars, disp, thr, inst, sess>>

\* time.sleep(2); console.progress_dot()
WaitSleep ==
    /\ wait.pc = "sleep"
    /\ now' = now + PollInterval * TicksPerSecond
    /\ wait' = [wait EXCEPT !.pc = "test", !.dots = @ + 1]
    /\ UNCHANGED <<vm_vars, disp, thr, inst, sess>>

\* time.time() when wait is called
StartTimes == {0, 3}

InitWait ==
    /\ name \in VMNames
    /\ live_iso = TRUE
    /\ EmptyDisks
    /\ InitInvocation
    /\ now \in StartTimes
    /\ wait = WaitIdle
    /\ NoDispatch
    /\ NoThreads
    /\ NoInstall
    /\ NoSession

NextWait ==
    \/ WaitBegin
    \/ WaitTest
    \/ WaitProbe
    \/ WaitSleep

\* The loop of SSHClient.wait is sequential code: once called it keeps
\* taking its next step.
SpecWait == InitWait /\ [][NextWait]_vars /\ WF_vars(WaitTest \/ WaitProbe \/ WaitSleep)

\* ------------------------------------------------------ CommandDispatcher
\* VM_CONFIGS.keys() / VM_CONFIGS.values(): the configured VMs in the
\* order the dict literal lists them.
ConfigOrder == <<"min", "full">>

\* The commands main registers with the dispatcher.
Commands ==
    {"status", "start", "stop", "restart", "wait", "ssh", "console", "log",
     "create", "delete"}

\* only the ssh command marked single_vm
SingleVM_OnlySsh == {"ssh"}

\* Command.single_vm = True
SingleVM == {"ssh", "console", "log"}

\* The commands whose VM operation writes or removes files of the VM.
WritingCommands == {"start", "stop", "restart", "create", "delete"}

\* Command names and targets the command line can carry.
CommandNames == Commands \cup {"reboot"}

Targets == {"all", "min", "full", "max", "ALL", ""}

\* ValueError(f"Unknown VM '{target}'. Available: min, full, all")
UnknownVM(target) ==
    [kind |-> "UnknownVM", about |-> target, names |-> ConfigOrder \o <<"all">>]

\* ValueError(f"Unknown command: {command_name}")
UnknownCommand(command_name) ==
    [kind |-> "UnknownCommand", about |-> command_name, names |-> <<>>]

\* ValueError(f"Specify VM for {command_name} (min or full)")
RequiresSingleTarget(command_name) ==
    [kind |-> "RequiresSingleTarget", about |-> command_name, names |-> <<"min", "full">>]

\* a resolution that takes every unknown target for "all"
ResolveVMs_DefaultAll(target) ==
    IF target \in VMNames
    THEN [vms |-> <<target>>, raised |-> NoDispatchError]
    ELSE [vms |-> ConfigOrder, raised |-> NoDispatchError]

\* CommandDispatcher._resolve_vms: the VMs a target names, or the error.
ResolveVMs(target) ==
    IF target = "all"
    THEN [vms |-> ConfigOrder, raised |-> NoDispatchError]
    ELSE IF target \notin VMNames
    THEN [vms |-> <<>>, raised |-> UnknownVM(target)]
    ELSE [vms |-> <<target>>, raised |-> NoDispatchError]

\* CommandDispatcher.dispatch up to its loop over the resolved VMs, from
\* the record begun of the invocation.
Dispatched(begun, command_name, target) ==
    LET res == ResolveVMs(target)
    IN IF command_name = "status"
       THEN [begun EXCEPT !.printed = ConfigOrder]
       ELSE IF command_name \notin Commands
       THEN [begun EXCEPT !.raised = UnknownCommand(command_name)]
       ELSE IF command_name \in SingleVM /\ target = "all"
       THEN [begun EXCEPT !.raised = RequiresSingleTarget(command_name)]
       ELSE IF res.raised # NoDispatchError
       THEN [begun EXCEPT !.raised = res.raised]
       ELSE [begun EXCEPT !.resolved = res.vms, !.queue = res.vms, !.pc = "run"]

\* CommandDispatcher.dispatch called on its own.
Dispatch(command_name, target) ==
    /\ disp.pc = "idle"
    /\ disp' = Dispatched([DispIdle(disp.fs) EXCEPT !.command = command_name,
                                                    !.target = target],
                          command_name, target)
    /\ UNCHANGED <<now, wait, vm_vars, thr, inst, sess>>

\* a loop that notes the error of a VM and goes on to the next VM
DispatchExecute_Continue ==
    /\ disp.pc = "run"
    /\ LET vm == Head(disp.queue)
       IN \E ok \in BOOLEAN, after \in SUBSET FileKinds :
             /\ disp.command \notin WritingCommands => after = disp.fs[vm]
             /\ disp' = [disp EXCEPT
                           !.executed = Append(@, vm),
                           !.fs[vm] = after,
                           !.queue = Tail(@),
                           !.pc = IF Tail(disp.queue) # <<>> THEN "run" ELSE "idle",
                           !.raised = IF ok THEN @
                                      ELSE [kind |-> "OperationError", about |-> vm,
                                            names |-> <<>>]]
    /\ UNCHANGED <<now, wait, vm_vars, thr, inst, sess>>

\* for vm in vms: command.execute(vm, args) - one iteration: the operation
\* reads and writes the files of its VM only and returns or raises; an
\* exception leaves the loop and dispatch.
DispatchExecute ==
    /\ disp.pc = "run"
    /\ LET vm == Head(disp.queue)
       IN \E ok \in BOOLEAN, after \in SUBSET FileKinds :
             /\ disp.command \notin WritingCommands => after = disp.fs[vm]
             /\ disp' = [disp EXCEPT
                           !.executed = Append(@, vm),
                           !.fs[vm] = after,
                           !.queue = IF ok THEN Tail(@) ELSE <<>>,
                           !.pc = IF ok /\ Tail(disp.queue) # <<>> THEN "run" ELSE "idle",
                           !.raised = IF ok THEN @
                                      ELSE [kind |-> "OperationError", about |-> vm,
                                            names |-> <<>>]]
    /\ UNCHANGED <<now, wait, vm_vars, thr, inst, sess>>

\* The dispatcher starts on any files of the configured VMs.
InitDispatch ==
    /\ name = "min"
    /\ live_iso = TRUE
    /\ EmptyDisks
    /\ InitInvocation
    /\ NoWait
    /\ NoThreads
    /\ NoInstall
    /\ NoSession
    /\ \E fs \in [VMNames -> SUBSET FileKinds] : disp = DispIdle(fs)

NextDispatch ==
    \/ \E command_name \in CommandNames, target \in Targets : Dispatch(command_name, target)
    \/ DispatchExecute

SpecDispatch == InitDispatch /\ [][NextDispatch]_vars

\* ------------------------------------------------------------------- main
\* platform.machine() of the hosts the program is run on
Machines == {"x86_64", "AMD64", "arm64", "riscv64"}

\* str.lower on the machine names above
Lower(machine) == IF machine = "AMD64" THEN "amd64" ELSE machine

\* Platform.arch: the architecture name of the hypervisor, None for the
\* RuntimeError of an unsupported machine.
Arch(machine) ==
    IF Lower(machine) \in {"arm64", "aarch64"} THEN "aarch64"
    ELSE IF Lower(machine) \in {"x86_64", "amd64"} THEN "x86_64"
    ELSE None

\* f"qemu-system-{self.arch}"
QemuSystem(arch) ==
    IF arch = "aarch64" THEN "qemu-system-aarch64" ELSE "qemu-system-x86_64"

\* The executables shutil.which may find on PATH.
Tools == {"qemu-system-x86_64", "qemu-system-aarch64", "qemu-img"}

\* a check that reports the first missing tool only
CheckDependencies_FirstOnly(machine, path) ==
    LET missing == SelectSeq(<<QemuSystem(Arch(machine)), "qemu-img">>,
                             LAMBDA t : t \notin path)
    IN IF missing = <<>> THEN <<>> ELSE <<missing[1]>>

\* Platform.check_dependencies: the list missing.
CheckDependencies(machine, path) ==
    SelectSeq(<<QemuSystem(Arch(machine)), "qemu-img">>, LAMBDA t : t \notin path)

\* RuntimeError(f"Missing dependencies: {', '.join(missing)}")
MissingDependencies(missing) ==
    [kind |-> "MissingDependencies", about |-> None, names |-> missing]

\* RuntimeError(f"Unsupported architecture: {self._machine}")
UnsupportedArchitecture(machine) ==
    [kind |-> "UnsupportedArchitecture", about |-> machine, names |-> <<>>]

\* parser.parse_args() on a command that is no subcommand: usage, exit 2
ParserError(command_name) ==
    [kind |-> "ParserError", about |-> command_name, names |-> <<>>]

\* if not args.command: parser.print_help(); sys.exit(1)
NoCommand == [kind |-> "NoCommand", about |-> None, names |-> <<>>]

\* What the command line can carry as its subcommand: a registered
\* command, none, or a word that is none.
MainCommandNames == Commands \cup {"", "reboot"}

\* main on the host the record disp describes (its machine and the tools
\* on its PATH): parse_args, get_platform (Platform, check_dependencies),
\* then dispatch; status is parsed without a vm argument, so its target
\* is the default "all".
Main(command_name, target) ==
    /\ disp.pc = "idle"
    /\ command_name = "status" => target = "all"
    /\ LET machine == disp.machine
           path    == disp.path
           begun   == [DispIdle(disp.fs) EXCEPT !.command = command_name, !.target = target,
                                               !.machine = machine, !.path = path]
       IN disp' =
            IF command_name = ""
            THEN [begun EXCEPT !.raised = NoCommand]
            ELSE IF command_name \notin Commands
            THEN [begun EXCEPT !.raised = ParserError(command_name)]
            ELSE IF Arch(machine) = None
            THEN [begun EXCEPT !.raised = UnsupportedArchitecture(machine)]
            ELSE IF CheckDependencies(machine, path) # <<>>
            THEN [begun EXCEPT !.raised = MissingDependencies(CheckDependencies(machine, path))]
            ELSE Dispatched(begun, command_name, target)
    /\ UNCHANGED <<now, wait, vm_vars, thr, inst, sess>>

\* The program is run on some host, on any files of the configured VMs.
InitMain ==
    /\ name = "min"
    /\ live_iso = TRUE
    /\ EmptyDisks
    /\ InitInvocation
    /\ NoWait
    /\ NoThreads
    /\ NoInstall
    /\ NoSession
    /\ \E fs \in [VMNames -> SUBSET FileKinds], machine \in Machines, path \in SUBSET Tools :
          disp = [DispIdle(fs) EXCEPT !.machine = machine, !.path = path]

NextMain ==
    \/ \E command_name \in MainCommandNames, target \in Targets : Main(command_name, target)
    \/ DispatchExecute

SpecMain == InitMain /\ [][NextMain]_vars

\* -------------------------------------------------- concurrent invocations
\* Two invocations of the program run on the same VM at once, each a
\* process of its own; they share the files of .testenv/disks and the
\* hypervisor processes and nothing else.  A step is one access to a file
\* or to a process.

\* what a step of a concurrent stop leaves alone
stop_frame == <<env, inv, hist, system_disk, data_disk, next_pid, now, wait, disp, inst,
               sess>>

\* VM.stop: pid = self.pid; if pid is None: return
StopReadPid(t) ==
    /\ thr[t].pc = "idle"
    /\ thr' = [thr EXCEPT ![t] = [@ EXCEPT !.op = "stop", !.pid = Pid,
                                          !.pc = IF Pid = NoPid THEN "done" ELSE "test"]]
    /\ UNCHANGED <<files, alive, stop_frame>>

\* VM.stop: if not self.is_running - the pid file is read again
StopTestRunning(t) ==
    /\ thr[t].pc = "test"
    /\ thr' = [thr EXCEPT ![t].pc = IF IsRunning THEN "kill" ELSE "unlink_state"]
    /\ UNCHANGED <<files, alive, stop_frame>>

\* VM.stop: self._runner.kill(pid) - SIGTERM to the pid read first; a
\* failing kill returns False and raises nothing
StopKill(t) ==
    /\ thr[t].pc = "kill"
    /\ thr' = [thr EXCEPT ![t] = [@ EXCEPT !.sigs = Append(@, "TERM"), !.pc = "wait"]]
    /\ UNCHANGED <<files, alive, stop_frame>>

\* VM.stop: one iteration of for _ in range(20): if not self.is_running:
\* break; time.sleep(0.5)
StopWait(t) ==
    /\ thr[t].pc = "wait"
    /\ thr' = [thr EXCEPT ![t] =
                 IF ~IsRunning THEN [@ EXCEPT !.pc = "unlink_state",
                                              !.polled = @ \cup {Pid}]
                 ELSE [@ EXCEPT !.polls = @ + 1,
                                !.polled = @ \cup {Pid},
                                !.pc = IF thr[t].polls + 1 = StopPolls THEN "kill_force"
                                       ELSE "wait"]]
    /\ UNCHANGED <<files, alive, stop_frame>>

\* VM.stop: self._runner.kill_force(pid); time.sleep(0.5) - the process is
\* usually gone after the sleep; one blocked in the kernel may still be
\* there
StopKillForce(t) ==
    /\ thr[t].pc = "kill_force"
    /\ \E gone \in BOOLEAN :
          alive' = IF gone THEN alive \ {thr[t].pid} ELSE alive
    /\ thr' = [thr EXCEPT ![t] = [@ EXCEPT !.sigs = Append(@, "KILL"),
                                          !.pc = "unlink_state"]]
    /\ UNCHANGED <<files, stop_frame>>

\* VM._cleanup_state_files: self.state_file.unlink(missing_ok=True)
StopUnlinkState(t) ==
    /\ thr[t].pc = "unlink_state"
    /\ state_file' = NoFile
    /\ thr' = [thr EXCEPT ![t].pc = "unlink_pid"]
    /\ UNCHANGED <<pid_file, console_socket, alive, stop_frame>>

\* VM._cleanup_state_files: self.pid_file.unlink(missing_ok=True)
StopUnlinkPid(t) ==
    /\ thr[t].pc = "unlink_pid"
    /\ pid_file' = NoFile
    /\ thr' = [thr EXCEPT ![t] = [@ EXCEPT !.unlinked = Pid, !.pc = "unlink_socket"]]
    /\ UNCHANGED <<state_file, console_socket, alive, stop_frame>>

\* VM._cleanup_console_socket, then stop returns
StopUnlinkSocket(t) ==
    /\ thr[t].pc = "unlink_socket"
    /\ console_socket' = FALSE
    /\ thr' = [thr EXCEPT ![t].pc = "done"]
    /\ UNCHANGED <<pid_file, state_file, alive, stop_frame>>

\* The states the program leaves a VM in between two invocations: not
\* created, stopped, running from either medium, or the markers of a
\* hypervisor that has since died.
InitStops ==
    /\ name \in VMNames
    /\ live_iso = TRUE
    /\ data_disk = FALSE
    /\ \/ /\ system_disk \in BOOLEAN
          /\ pid_file = NoFile
          /\ state_file = NoFile
          /\ console_socket = FALSE
          /\ alive = {}
          /\ next_pid = 1
       \/ /\ system_disk = TRUE
          /\ pid_file = PidText(1)
          /\ state_file \in {<<BootMode[m]>> : m \in Modes}
          /\ console_socket = TRUE
          /\ alive \in SUBSET {1}
          /\ next_pid = 2
    /\ InitInvocation
    /\ NoWait
    /\ NoDispatch
    /\ NoThreads
    /\ NoInstall
    /\ NoSession

NextStops ==
    \/ \E t \in Threads : StopReadPid(t)
    \/ \E t \in Threads : StopTestRunning(t)
    \/ \E t \in Threads : StopKill(t)
    \/ \E t \in Threads : StopWait(t)
    \/ \E t \in Threads : StopKillForce(t)
    \/ \E t \in Threads : StopUnlinkState(t)
    \/ \E t \in Threads : StopUnlinkPid(t)
    \/ \E t \in Threads : StopUnlinkSocket(t)
    \/ \E p \in Pids : HvExit(p)

SpecStops == InitStops /\ [][NextStops]_vars

\* what a step of a concurrent start leaves alone
start_frame == <<env, inv, hist, system_disk, data_disk, now, wait, disp, inst, sess>>

\* VM.start: if self.is_running: ... return
StartTestRunning(t, mode) ==
    /\ thr[t].pc = "idle"
    /\ thr' = [thr EXCEPT ![t] = [@ EXCEPT !.op = "start", !.mode = mode,
                                          !.pc = IF IsRunning THEN "done" ELSE "check"]]
    /\ UNCHANGED <<files, procs, start_frame>>

\* VM.start: the tests for the disk and for the live ISO, each raising
\* RuntimeError
StartCheckFiles(t) ==
    /\ thr[t].pc = "check"
    /\ thr' = [thr EXCEPT ![t] =
                 IF ~DiskExists THEN [@ EXCEPT !.raised = "DiskNotFound", !.pc = "done"]
                 ELSE IF thr[t].mode = "LIVE" /\ ~live_iso
                 THEN [@ EXCEPT !.raised = "MediaNotFound", !.pc = "done"]
                 ELSE [@ EXCEPT !.pc = "launch"]]
    /\ UNCHANGED <<files, procs, start_frame>>

\* The error VM.start raises for the standard error of a failed QEMU.
StartError(text) ==
    LET stripped == IF text # <<>> THEN Strip(text) ELSE <<>>
    IN IF Contains(stripped, HostFwdMsg) THEN "PortInUse" ELSE "LaunchFailed"

\* VM.start: result = self._runner.run(cmd).  QEMU daemonizes, writes its
\* pid file and opens the console socket, which it cannot do while the
\* host port is bound; a QEMU that fails may or may not leave a socket.
StartLaunch(t) ==
    /\ thr[t].pc = "launch"
    /\ next_pid <= MaxPid
    /\ \/ /\ ~PortBound
          /\ alive' = alive \cup {next_pid}
          /\ next_pid' = next_pid + 1
          /\ pid_file' = PidText(next_pid)
          /\ console_socket' = TRUE
          /\ thr' = [thr EXCEPT ![t] = [@ EXCEPT !.launched = next_pid,
                                                !.pc = "write_state"]]
       \/ \E text \in StderrTexts, sock \in BOOLEAN :
             /\ PortBound => Contains(text, HostFwdMsg)
             /\ console_socket' = sock
             /\ thr' = [thr EXCEPT ![t] = [@ EXCEPT !.pending = StartError(text),
                                                   !.pc = "failed"]]
             /\ UNCHANGED <<alive, next_pid, pid_file>>
    /\ UNCHANGED <<state_file, start_frame>>

\* VM.start after a failed launch: self.pid_file.unlink(missing_ok=True),
\* then the RuntimeError
StartFailedUnlinkPid(t) ==
    /\ thr[t].pc = "failed"
    /\ pid_file' = NoFile
    /\ thr' = [thr EXCEPT ![t] = [@ EXCEPT !.unlinked = Pid, !.raised = thr[t].pending,
                                          !.pc = "done"]]
    /\ UNCHANGED <<state_file, console_socket, procs, start_frame>>

\* VM.start after a launch: self.state_file.write_text(mode.value)
StartWriteState(t) ==
    /\ thr[t].pc = "write_state"
    /\ state_file' = <<BootMode[thr[t].mode]>>
    /\ thr' = [thr EXCEPT ![t].pc = "done"]
    /\ UNCHANGED <<pid_file, console_socket, procs, start_frame>>

\* Two invocations at once, each a start or a stop.
NextRaces ==
    \/ \E t \in Threads, mode \in Modes : StartTestRunning(t, mode)
    \/ \E t \in Threads : StartCheckFiles(t)
    \/ \E t \in Threads : StartLaunch(t)
    \/ \E t \in Threads : StartFailedUnlinkPid(t)
    \/ \E t \in Threads : StartWriteState(t)
    \/ NextStops

SpecRaces == InitStops /\ [][NextRaces]_vars

\* ------------------------------------------------- the install action
\* what a step of the install action leaves alone
install_frame == <<now, wait, disp, thr, sess, vm_vars>>

\* IgnitionBuilder.REQUIRED_TOOLS
REQUIRED_TOOLS == <<"butane", "ignition-validate">>

\* Paths a task can list as templates, and the base template render
\* writes into the temporary directory.
TemplateFiles == {"a.bu", "b.bu"}

BaseTemplate == "base.bu"

TemplateLists == UNION { [1..n -> TemplateFiles] : n \in 0..MaxTemplates }

\* ActionModule.run taking the host for installed whatever force says
AlreadyInstalled_IgnoreForce(force, installed) == installed

\* ActionModule.run: not force and self._is_installed()
AlreadyInstalled(force, installed) == ~force /\ installed

\* IgnitionBuilder._check_required_tools: the list missing
MissingTools(path) == SelectSeq(REQUIRED_TOOLS, LAMBDA t : t \notin path)

\* a check that stops at the first template that is no file
MissingTemplates_First(templates, existing) ==
    LET missing == SelectSeq(templates, LAMBDA t : t \notin existing)
    IN IF missing = <<>> THEN <<>> ELSE <<missing[1]>>

\* IgnitionBuilder.render: missing = [t for t in templates if not
\* os.path.isfile(t)]
MissingTemplates(templates, existing) ==
    SelectSeq(templates, LAMBDA t : t \notin existing)

\* shutil.rmtree of the temporary directory: OSError when it is not there
RmTree(dir) ==
    IF dir THEN [dir |-> FALSE, error |-> None] ELSE [dir |-> FALSE, error |-> "OSError"]

\* TempFileManager.cleanup: try: shutil.rmtree(self.temp_dir) except
\* OSError: pass
Cleanup(dir) == [dir |-> RmTree(dir).dir, raised |-> None]

\* One process or templar call of _render_template and how it ended.
Ran(tool, template, ok) == [tool |-> tool, template |-> template, ok |-> ok]

\* How _render_template can end for one template.
RenderOutcomes ==
    {"ok", "template_error", "butane_failed", "butane_timeout",
     "validate_failed", "validate_timeout"}

\* The calls _render_template makes up to the one that fails.
RenderCommands(t, outcome) ==
    IF outcome = "template_error" THEN <<Ran("templar", t, FALSE)>>
    ELSE IF outcome \in {"butane_failed", "butane_timeout"}
    THEN <<Ran("templar", t, TRUE), Ran("butane", t, FALSE)>>
    ELSE IF outcome \in {"validate_failed", "validate_timeout"}
    THEN <<Ran("templar", t, TRUE), Ran("butane", t, TRUE),
           Ran("ignition-validate", t, FALSE)>>
    ELSE <<Ran("templar", t, TRUE), Ran("butane", t, TRUE),
           Ran("ignition-validate", t, TRUE)>>

\* ActionModule.run up to the with statement: the arguments, then the
\* test for an installed host, which asks the host only when force is
\* false.
InstallRun(force, installed, check_mode, templates, existing, path) ==
    /\ inst.pc = "idle"
    /\ LET begun == [InstallIdle EXCEPT !.force = force, !.installed = installed,
                                        !.check_mode = check_mode,
                                        !.templates = templates,
                                        !.existing = existing, !.path = path,
                                        !.probed = ~force]
       IN inst' = IF AlreadyInstalled(force, installed)
                  THEN [begun EXCEPT !.pc = "returned", !.msg = "already installed"]
                  ELSE [begun EXCEPT !.pc = "build"]
    /\ UNCHANGED install_frame

\* IgnitionBuilder.__init__: _check_required_tools, then the
\* TempFileManager and its mkdtemp.
InstallBuild ==
    /\ inst.pc = "build"
    /\ inst' = IF MissingTools(inst.path) # <<>>
               THEN [inst EXCEPT !.pc = "raised",
                                 !.raised = [kind |-> "ToolsNotFound",
                                             names |-> MissingTools(inst.path)]]
               ELSE [inst EXCEPT !.pc = "render", !.built = TRUE, !.temp_dir = TRUE]
    /\ UNCHANGED install_frame

\* IgnitionBuilder.render: the test of the template paths
InstallRenderCheck ==
    /\ inst.pc = "render"
    /\ LET missing == MissingTemplates(inst.templates, inst.existing)
       IN inst' = IF missing # <<>>
                  THEN [inst EXCEPT !.pc = "exit",
                                    !.pending = [kind |-> "TemplatesNotFound",
                                                 names |-> missing]]
                  ELSE [inst EXCEPT !.pc = "template",
                                    !.todo = inst.templates \o <<BaseTemplate>>]
    /\ UNCHANGED install_frame

\* IgnitionBuilder._render_template of the next template, the base
\* template last: templar, butane, ignition-validate
InstallTemplate ==
    /\ inst.pc = "template"
    /\ LET t == Head(inst.todo)
       IN \E outcome \in RenderOutcomes :
             inst' = IF outcome = "ok"
                     THEN [inst EXCEPT
                             !.commands = @ \o RenderCommands(t, outcome),
                             !.ignition_files = IF t = BaseTemplate THEN @ ELSE Append(@, t),
                             !.todo = Tail(@),
                             !.pc = IF Tail(inst.todo) = <<>> THEN "mode" ELSE "template"]
                     ELSE [inst EXCEPT
                             !.commands = @ \o RenderCommands(t, outcome),
                             !.pending = [kind |-> outcome, names |-> <<t>>],
                             !.pc = "exit"]
    /\ UNCHANGED install_frame

\* an action that installs in check mode too
InstallMode_AlwaysInstall ==
    /\ inst.pc = "mode"
    /\ inst' = [inst EXCEPT !.put_files = @ + 1, !.installs = @ + 1,
                            !.installed_now = TRUE, !.changed = TRUE,
                            !.msg = "installed", !.pc = "exit"]
    /\ UNCHANGED install_frame

\* ActionModule.run: the check_mode test, then _install (put_file, then
\* coreos-installer on the host) and result["changed"] = True
InstallMode ==
    /\ inst.pc = "mode"
    /\ IF inst.check_mode
       THEN inst' = [inst EXCEPT !.msg = "would install", !.changed = TRUE, !.pc = "exit"]
       ELSE \E outcome \in {"ok", "put_failed", "installer_failed"} :
               inst' =
                 IF outcome = "put_failed"
                 THEN [inst EXCEPT !.put_files = @ + 1, !.pc = "exit",
                                   !.pending = [kind |-> outcome, names |-> <<>>]]
                 ELSE IF outcome = "installer_failed"
                 THEN [inst EXCEPT !.put_files = @ + 1, !.installs = @ + 1, !.pc = "exit",
                                   !.pending = [kind |-> outcome, names |-> <<>>]]
                 ELSE [inst EXCEPT !.put_files = @ + 1, !.installs = @ + 1,
                                   !.installed_now = TRUE, !.changed = TRUE,
                                   !.msg = "installed", !.pc = "exit"]
    /\ UNCHANGED install_frame

\* an exit from the with block that cleans up after a success only
InstallExit_OnSuccess ==
    /\ inst.pc = "exit"
    /\ inst' = IF inst.pending = NoFail
               THEN [inst EXCEPT !.temp_dir = FALSE, !.cleanups = @ + 1, !.pc = "returned"]
               ELSE [inst EXCEPT !.raised = inst.pending, !.changed = FALSE,
                                 !.pc = "raised"]
    /\ UNCHANGED install_frame

\* IgnitionBuilder.__exit__ -> cleanup, then run returns result or the
\* exception of the block goes on
InstallExit ==
    /\ inst.pc = "exit"
    /\ LET c == Cleanup(inst.temp_dir)
       IN inst' = IF c.raised # None
                  THEN [inst EXCEPT !.temp_dir = c.dir, !.cleanups = @ + 1,
                                    !.raised = [kind |-> c.raised, names |-> <<>>],
                                    !.changed = FALSE, !.pc = "raised"]
                  ELSE IF inst.pending = NoFail
                  THEN [inst EXCEPT !.temp_dir = c.dir, !.cleanups = @ + 1,
                                    !.pc = "returned"]
                  ELSE [inst EXCEPT !.temp_dir = c.dir, !.cleanups = @ + 1,
                                    !.raised = inst.pending, !.changed = FALSE,
                                    !.pc = "raised"]
    /\ UNCHANGED install_frame

\* TempFileManager.cleanup called once more on the manager of a builder
\* that has been cleaned up
InstallCleanupAgain ==
    /\ inst.pc \in {"returned", "raised"}
    /\ inst.built
    /\ inst.cleanups < MaxCleanups
    /\ LET c == Cleanup(inst.temp_dir)
       IN inst' = [inst EXCEPT !.temp_dir = c.dir, !.cleanups = @ + 1,
                               !.raised = IF c.raised # None
                                          THEN [kind |-> c.raised, names |-> <<>>]
                                          ELSE @]
    /\ UNCHANGED install_frame

\* The action plugin is loaded for one task.
InitInstall ==
    /\ name = "min"
    /\ live_iso = TRUE
    /\ EmptyDisks
    /\ InitInvocation
    /\ NoWait
    /\ NoThreads
    /\ NoInstall
    /\ NoSession
    /\ NoDispatch

NextInstall ==
    \/ \E force, installed, check_mode \in BOOLEAN, templates \in TemplateLists,
          existing \in SUBSET TemplateFiles, path \in SUBSET {"butane", "ignition-validate"} :
             InstallRun(force, installed, check_mode, templates, existing, path)
    \/ InstallBuild
    \/ InstallRenderCheck
    \/ InstallTemplate
    \/ InstallMode
    \/ InstallExit
    \/ InstallCleanupAgain

SpecInstall == InitInstall /\ [][NextInstall]_vars

\* ================================================================ claims
\* A text surrounded by at most one white-space element on each side.
Padded(t) == { l \o t \o r : l \in {<<>>, <<" ">>, <<"\n">>}, r \in {<<>>, <<" ">>, <<"\n">>} }

\* The processes whose decimal id the pid marker holds.
MarkedPids == { p \in Pids : pid_file \in Padded(<<ToString(p)>>) }

\* The host port VM_CONFIGS gives the VM.
HostPort == IF name = "min" THEN 3021 ELSE 3022

\* C1: the status command reports running iff the pid marker parses and
\* the process it names is alive, otherwise stopped iff the system image
\* exists, otherwise not_created; nothing else enters the result.
C1_StatusFromMarkerAndDisk ==
    act = "status" =>
        /\ Len(report) = 1
        /\ report[1].status =
              IF \E p \in MarkedPids : p \in alive THEN "running"
              ELSE IF system_disk THEN "stopped"
              ELSE "not_created"

\* C1 witness: a status query on an unparsable pid marker, the process
\* alive and the system image present, answered stopped.
C1_Witness ==
    /\ act = "status"
    /\ pid_file = <<"x", "\n">>
    /\ alive = {1}
    /\ system_disk
    /\ report[1].status = "stopped"

\* C2: between commands, with a hypervisor that honours the signals, a
\* stopped VM has its system image and no live hypervisor, and a
\* not-created VM has no system image.
C2_StoppedHasNoHypervisor ==
    (pc = "idle" /\ ~disobeyed) =>
        /\ Status = "stopped" => (system_disk /\ alive = {})
        /\ Status = "not_created" => ~system_disk

\* C3: start on a running VM launches nothing, raises nothing and leaves
\* every marker, the socket, the images and the processes as they were.
C3_StartWhenRunning ==
    [][(pc = "idle" /\ act' = "start" /\ Status = "running") =>
          (launches' = 0 /\ err' = NoError /\ files' = files /\ procs' = procs)]_vars

\* C3 witness: start --disk returned without a launch on a VM that runs
\* from the live medium.
C3_Witness ==
    /\ act = "start"
    /\ req = "DISK"
    /\ launches = 0
    /\ err = NoError
    /\ Status = "running"
    /\ state_file = <<"live">>

C5_StopWhenNotRunning ==
    [][(pc = "idle" /\ act' = "stop" /\ Status # "running") =>
          (/\ err' = NoError
           /\ sigs' = <<>>
           /\ pc' = "idle"
           /\ procs' = procs
           /\ (act = "stop" => files' = files))]_vars

\* C5 witness: stop returned through the stale-marker path on a stopped VM.
C5_Witness ==
    /\ act = "stop"
    /\ pc = "idle"
    /\ stop_path = "stale"
    /\ sigs = <<>>
    /\ err = NoError
    /\ system_disk
    /\ pid_file = NoFile

\* C6: stop sends SIGTERM first and polls at most 20 times; SIGKILL is
\* sent iff all 20 polls found the process alive, after SIGTERM, and never
\* once a poll found it gone.
C6_GracefulThenForced ==
    /\ sigs \in {<<>>, <<"TERM">>, <<"TERM", "KILL">>}
    /\ polls <= 20
    /\ sigs = <<"TERM", "KILL">> => (polls = 20 /\ ~saw_gone)
    /\ (sigs = <<"TERM">> /\ pc \notin {"poll", "force"}) => (saw_gone /\ polls < 20)
    /\ pc = "poll" => (sigs = <<"TERM">> /\ polls < 20)
    /\ pc = "force" => (sigs = <<"TERM">> /\ polls = 20 /\ ~saw_gone)

\* C6 witness: a stop that sent SIGTERM, found the process alive at every
\* poll, sent SIGKILL and returned.
C6_Witness ==
    /\ sigs = <<"TERM", "KILL">>
    /\ polls = 20
    /\ pc = "idle"
    /\ caller = "stop"

\* C7: stop removes the pid marker, the boot-mode marker and the console
\* socket of the process it signalled only when that process is gone.
C7_MarkersKeptWhileAlive ==
    [][(pc \in {"poll", "force"} /\ files' # files) => stop_pid \notin alive']_vars

\* C8: stop on a stale pid marker removes the pid marker, the boot-mode
\* marker and the console socket, signals nothing and raises nothing;
\* the status afterwards follows from the system image alone.
C8_StaleMarkerCleanup ==
    [][(pc = "idle" /\ act' = "stop" /\ MarkedPids # {} /\ MarkedPids \cap alive = {}) =>
          (/\ pid_file' = NoFile
           /\ state_file' = NoFile
           /\ console_socket' = FALSE
           /\ <<system_disk, data_disk>>' = <<system_disk, data_disk>>
           /\ procs' = procs
           /\ sigs' = <<>>
           /\ err' = NoError
           /\ pc' = "idle"
           /\ Status' = IF system_disk THEN "stopped" ELSE "not_created")]_vars

\* C8 witness: stop took the stale-marker path on a VM without a system
\* image and left no marker and no socket.
C8_Witness ==
    /\ act = "stop"
    /\ stop_path = "stale"
    /\ pid_file = NoFile
    /\ state_file = NoFile
    /\ ~console_socket
    /\ ~system_disk
    /\ Status = "not_created"

\* C9: after a launch that returned 0 the boot-mode marker holds the
\* requested mode, and the status line reports running, the configured
\* host port and that mode.
C9_BootModeSaved ==
    [][(act' \in {"start", "restart", "restart_start"} /\ launches' = 1 /\ err' = NoError) =>
          LET value == IF req' = "LIVE" THEN "live" ELSE "disk"
          IN /\ act' # "start" => req' = "DISK"
             /\ state_file' = <<value>>
             /\ StatusLine' = [status |-> "running", port |-> HostPort, mode |-> value]]_vars

\* C9 witness: start --disk launched a hypervisor on the VM full.
C9_Witness ==
    /\ act = "start"
    /\ req = "DISK"
    /\ launches = 1
    /\ err = NoError
    /\ name = "full"
    /\ state_file = <<"disk">>
    /\ Status = "running"

\* C10: after a launch that returned nonzero the pid marker is absent,
\* the boot-mode marker is as before, the status is not running, and the
\* error is PortInUse with the host port iff the captured text has the
\* host-forwarding message, else LaunchFailed with the text.
C10_LaunchFailure ==
    [][(act' \in {"start", "restart", "restart_start"} /\ launches' = 1 /\ err' # NoError) =>
          (/\ pid_file' = NoFile
           /\ state_file' = state_file
           /\ Status' # "running"
           /\ IF \E i \in DOMAIN stderr' : stderr'[i] = HostFwdMsg
              THEN err' = [kind |-> "PortInUse", port |-> HostPort, text |-> <<>>]
              ELSE /\ err'.kind = "LaunchFailed"
                   /\ stderr' \in Padded(err'.text)
                   /\ \A i \in DOMAIN err'.text : ~IsSpace(err'.text[i]))]_vars

\* C10 witness: a launch failed with another message while a stale pid
\* marker and an older boot-mode marker were there.
C10_Witness ==
    /\ act = "start"
    /\ launches = 1
    /\ err.kind = "LaunchFailed"
    /\ err.text = <<"qemu:", "failed to initialize kvm">>
    /\ pid_file = NoFile
    /\ state_file = <<"live">>

\* C11: restart on a VM that is not running (stopped, not created, stale
\* or unreadable pid marker) is a start from the installed disk: the step
\* satisfies VM.start's relation for mode DISK (same error, same command
\* line, same markers and processes), returns in the same step and enters
\* no part of VM.stop.
C11_RestartIsStartDisk ==
    [][(pc = "idle" /\ act' = "restart" /\ Status # "running") =>
          (/\ StartBody("DISK")
           /\ pc' = "idle"
           /\ stop_path' = "none"
           /\ sigs' = <<>>
           /\ polls' = 0)]_vars

\* C11 witness: restart launched the hypervisor from the installed disk
\* without going through stop.
C11_Witness ==
    /\ act = "restart"
    /\ pc = "idle"
    /\ stop_path = "none"
    /\ launches = 1
    /\ err = NoError
    /\ cmd[1].boot = "c"
    /\ state_file = <<"disk">>
    /\ Status = "running"

\* C12: restart on a running VM goes through stop before it starts: the
\* start that follows finds the markers cleared, so it never takes the
\* already-running path but launches with the installed-disk command
\* line; when it raises nothing the VM runs a new process with boot-mode
\* marker "disk".
C12_RestartStopsThenStarts ==
    [][/\ (pc = "idle" /\ act' = "restart" /\ Status = "running") =>
             (pc' = "stop_begin" /\ launches' = 0 /\ files' = files /\ procs' = procs)
       /\ (pc = "stop_begin" /\ act' = "restart_stop") =>
             (stop_path' \in {"stale", "signal"} /\ launches' = 0)
       /\ (pc = "restart_start" /\ act' = "restart_start") =>
             (/\ stop_path \in {"stale", "signal"}
              /\ pid_file = NoFile /\ state_file = NoFile /\ ~console_socket
              /\ pc' = "idle"
              /\ launches' = 1
              /\ Len(cmd') = 1 /\ cmd'[1].boot = "c" /\ ~cmd'[1].cdrom
              /\ err' = NoError =>
                    (/\ Status' = "running"
                     /\ state_file' = <<"disk">>
                     /\ pid_file' = <<ToString(next_pid), "\n">>
                     /\ stop_pid \notin alive'))]_vars

\* C12 witness: restart of a running VM signalled it, saw it go and
\* launched a new hypervisor from the installed disk.
C12_Witness ==
    /\ act = "restart_start"
    /\ caller = "restart"
    /\ sigs = <<"TERM">>
    /\ saw_gone
    /\ launches = 1
    /\ err = NoError
    /\ state_file = <<"disk">>
    /\ Status = "running"

\* The data image of the VM is there: the file DiskManager.data_disk
\* names, which is defined for a VM configured with a data disk only.
DataImage == name = "full" /\ data_disk

\* C13: create followed immediately by delete leaves no system image, no
\* data image, no pid marker, no boot-mode marker and no console socket,
\* whatever files were there before the create and whether or not the
\* create raised.
C13_CreateDeleteLeavesNothing ==
    [][(pc = "idle" /\ act = "create" /\ act' = "delete") =>
          (/\ ~system_disk'
           /\ ~DataImage'
           /\ pid_file' = NoFile
           /\ state_file' = NoFile
           /\ ~console_socket'
           /\ err' = NoError)]_vars

\* C13 witness: a delete that found both images in place and no pid or
\* boot-mode marker, as a successful create of the two-disk VM leaves
\* them, and left nothing behind.
C13_Witness ==
    /\ act = "delete"
    /\ name = "full"
    /\ disk_log = <<Unlink("system", TRUE), Unlink("data", TRUE)>>
    /\ ~system_disk /\ ~data_disk
    /\ pid_file = NoFile /\ state_file = NoFile /\ ~console_socket

\* C14: create unlinks the old images before it runs qemu-img, then
\* creates the system image and, only for a VM configured with a data
\* disk, the data image; a failing qemu-img ends the command with an
\* error, so the data image is not attempted after a failed system image;
\* a create that raised nothing leaves the system image in place and the
\* data image in place exactly when one is configured.
C14_CreateOrder ==
    act = "create" =>
       LET unlinks == SelectSeq(disk_log, LAMBDA c : c.op = "unlink")
           tools   == SelectSeq(disk_log, LAMBDA c : c.op = "qemu-img")
           two     == name = "full"
       IN /\ disk_log = unlinks \o tools
          /\ [i \in 1..Len(unlinks) |-> unlinks[i].image] =
                (IF two THEN <<"system", "data">> ELSE <<"system">>)
          /\ Len(tools) >= 1
          /\ tools[1].image = "system"
          /\ Len(tools) = 2 <=> (two /\ tools[1].done)
          /\ Len(tools) = 2 => tools[2].image = "data"
          /\ err = NoError <=> (\A i \in 1..Len(tools) : tools[i].done)
          /\ err # NoError => err.kind = "CalledProcessError"
          /\ err = NoError => (system_disk /\ (data_disk <=> two))
          /\ ~tools[1].done => (~system_disk /\ ~data_disk)

\* C14 witness: create of the two-disk VM replaced a system image and
\* failed on the data image.
C14_Witness ==
    /\ act = "create"
    /\ name = "full"
    /\ disk_log = <<Unlink("system", TRUE), Unlink("data", FALSE),
                    QemuImg("system", TRUE), QemuImg("data", FALSE)>>
    /\ err # NoError
    /\ system_disk /\ ~data_disk

\* C15: delete never raises, whatever is absent; it leaves no image, no
\* pid marker, no boot-mode marker and no console socket, status
\* not_created; a second delete right after it changes no file.
C15_DeleteIdempotent ==
    [][(pc = "idle" /\ act' = "delete") =>
          (/\ err' = NoError
           /\ ~system_disk'
           /\ ~DataImage'
           /\ pid_file' = NoFile
           /\ state_file' = NoFile
           /\ ~console_socket'
           /\ Status' = "not_created"
           /\ act = "delete" => (files' = files /\ procs' = procs))]_vars

\* C15 witness: a delete that found no image to unlink and returned
\* without error.
C15_Witness ==
    /\ act = "delete"
    /\ name = "full"
    /\ disk_log = <<Unlink("system", FALSE), Unlink("data", FALSE)>>
    /\ err = NoError
    /\ Status = "not_created"

\* C16: on a VM that is not running, start in live mode with the system
\* image present and the live medium absent raises the media-not-found
\* error, launches nothing and changes no file or process; without a
\* system image the error is disk-not-found whether or not the live
\* medium is there; a start or restart from the installed disk never
\* raises media-not-found and launches although the live medium is absent.
C16_MediaNotFound ==
    [][(pc \in {"idle", "restart_start"} /\ act' \in {"start", "restart", "restart_start"}
          /\ Status # "running") =>
          (/\ (req' = "LIVE" /\ system_disk /\ ~live_iso) =>
                 (/\ err'.kind = "MediaNotFound"
                  /\ launches' = 0
                  /\ files' = files
                  /\ procs' = procs)
           /\ ~system_disk => (err'.kind = "DiskNotFound" /\ launches' = 0)
           /\ (req' = "DISK" /\ system_disk) => launches' = 1
           /\ err'.kind = "MediaNotFound" => (req' = "LIVE" /\ ~live_iso))]_vars

\* C16 witness: a start in live mode stopped at the missing live medium
\* with the system image in place.
C16_Witness ==
    /\ act = "start"
    /\ req = "LIVE"
    /\ err.kind = "MediaNotFound"
    /\ system_disk
    /\ ~live_iso
    /\ launches = 0
    /\ Status = "stopped"

\* C17: every hypervisor command line forwards the host port of the VM
\* (3021 for min, 3022 for full, the same in both modes) to guest port 22
\* in live mode and to the guest port configured for the VM (22 for min,
\* 2222 for full) in installed-disk mode, and attaches the live medium
\* and boots from it in live mode only.
C17_PortForwarding ==
    \A i \in 1..Len(cmd) :
        LET c == cmd[i]
        IN /\ c.vm = name
           /\ c.hostfwd[1] = HostPort
           /\ c.hostfwd[2] = (IF req = "LIVE" THEN 22
                              ELSE IF name = "min" THEN 22 ELSE 2222)
           /\ c.cdrom <=> (req = "LIVE")
           /\ c.boot = (IF req = "LIVE" THEN "d" ELSE "c")

\* C17 witness: the VM whose configured guest port is 2222 was launched
\* from the live medium, forwarding 3022 to 22.
C17_Witness ==
    /\ name = "full"
    /\ req = "LIVE"
    /\ launches = 1
    /\ cmd[1].hostfwd = <<3022, 22>>
    /\ cmd[1].cdrom

\* C18: a wait whose every probe failed raises TimeoutError, and when the
\* probes took no time it does so no later than the timeout plus one
\* poll interval of 2 seconds after it started; a wait on a target that
\* never answers always ends that way.
C18_WaitTimesOut ==
    /\ [](wait.pc = "timed_out" =>
             /\ wait.raised = "TimeoutError"
             /\ wait.spent = 0 =>
                   now - wait.start <= (wait.timeout + 2) * TicksPerSecond)
    /\ [](wait.pc \notin {"idle", "ready", "timed_out"} =>
             now - wait.start < (wait.timeout + 2) * TicksPerSecond + wait.spent)
    /\ ((wait.pc # "idle" /\ ~wait.up) ~> (wait.pc = "timed_out"))

\* C18 witness: a wait with a timeout of 3 seconds on a target that never
\* answers, its probes taking no time, timed out 4 seconds after it
\* started.
C18_Witness ==
    /\ wait.pc = "timed_out"
    /\ ~wait.up
    /\ wait.timeout = 3
    /\ wait.spent = 0
    /\ wait.probes = 2
    /\ now - wait.start = 4 * TicksPerSecond

\* The progress indications of SSHClient.wait: one dot for each failed
\* probe, printed after the sleep that follows it; the probe that
\* succeeds is the last step the wait takes.
WaitProgress ==
    /\ wait.pc \in {"test", "probe", "timed_out"} => wait.dots = wait.probes
    /\ wait.pc \in {"sleep", "ready"} => wait.dots = wait.probes - 1
    /\ wait.pc = "ready" => (wait.raised = None /\ wait.shown = Elapsed)

\* C19 as stated: the wait probes again while the elapsed time has not
\* exceeded the timeout, so it times out only past the timeout, and the
\* error it raises carries the elapsed duration.
C19_AsStated ==
    /\ WaitProgress
    /\ wait.pc = "timed_out" =>
          (/\ now - wait.start > wait.timeout * TicksPerSecond
           /\ wait.shown = Elapsed)

\* C19, amended: the wait returns right after the first successful probe,
\* prints one progress dot per failed probe and probes again exactly
\* while the elapsed time is below the timeout; at the timeout or past it
\* it raises TimeoutError carrying the timeout it was called with, not
\* the time that elapsed.
C19_WaitOutcome ==
    /\ [](/\ WaitProgress
          /\ wait.pc = "probe" => now - wait.start < wait.timeout * TicksPerSecond
          /\ wait.pc = "timed_out" =>
                (/\ now - wait.start >= wait.timeout * TicksPerSecond
                 /\ wait.shown = wait.timeout
                 /\ wait.raised = "TimeoutError"))
    /\ [][/\ wait.pc = "test" =>
                (wait'.pc = "probe" <=> now - wait.start < wait.timeout * TicksPerSecond)
          /\ wait.pc \in {"ready", "timed_out"} => wait' = wait]_vars

\* C19 witness: a wait with a timeout of 3 seconds timed out after 4
\* seconds and two dots, its error carrying 3.
C19_Witness ==
    /\ wait.pc = "timed_out"
    /\ wait.timeout = 3
    /\ wait.shown = 3
    /\ Elapsed = 4
    /\ wait.dots = 2

\* C20: for a registered command other than status that accepts its
\* target, "all" resolves to one VM per configured VM (min, then full), a
\* configured name to that one VM, and any other string raises the
\* unknown-VM error naming min, full and all; the command then runs on
\* no VM and no file of any VM changes; a command never runs on a VM the
\* target did not resolve to.
C20_TargetResolution ==
    /\ [](/\ (disp.command \in {"start", "stop", "restart", "wait", "create", "delete",
                                "ssh", "console", "log"}
              /\ ~(disp.command \in {"ssh", "console", "log"} /\ disp.target = "all")) =>
                (/\ disp.target = "all" => disp.resolved = <<"min", "full">>
                 /\ disp.target = "min" => disp.resolved = <<"min">>
                 /\ disp.target = "full" => disp.resolved = <<"full">>
                 /\ disp.target \in {"all", "min", "full"} =>
                       disp.raised.kind # "UnknownVM"
                 /\ disp.target \notin {"all", "min", "full"} =>
                       (/\ disp.raised.kind = "UnknownVM"
                        /\ disp.raised.about = disp.target
                        /\ disp.raised.names = <<"min", "full", "all">>
                        /\ disp.resolved = <<>>
                        /\ disp.executed = <<>>
                        /\ disp.pc = "idle"))
          /\ Len(disp.executed) <= Len(disp.resolved)
          /\ \A i \in 1..Len(disp.executed) : disp.executed[i] = disp.resolved[i])
    /\ [][disp'.raised.kind = "UnknownVM" =>
             (disp'.fs = disp.fs /\ files' = files /\ procs' = procs)]_vars

\* C20 witness: delete max was refused with the unknown-VM error while
\* files of both VMs were there, and ran on no VM.
C20_Witness ==
    /\ disp.command = "delete"
    /\ disp.target = "max"
    /\ disp.raised = [kind |-> "UnknownVM", about |-> "max", names |-> <<"min", "full", "all">>]
    /\ disp.executed = <<>>
    /\ disp.pc = "idle"
    /\ disp.fs = [v \in {"min", "full"} |-> {"image", "marker"}]

\* C21: ssh, console and log dispatched to "all" raise the
\* requires-single-target error with no VM resolved, no VM operation run
\* and no file of any VM changed; start, stop, restart, wait, create and
\* delete dispatched to "all" never raise it and resolve to both VMs.
C21_SingleTargetCommands ==
    /\ []((disp.target = "all" /\ disp.command \in {"ssh", "console", "log"}) =>
             (/\ disp.raised.kind = "RequiresSingleTarget"
              /\ disp.raised.about = disp.command
              /\ disp.resolved = <<>>
              /\ disp.executed = <<>>
              /\ disp.pc = "idle"))
    /\ []((disp.target = "all"
           /\ disp.command \in {"start", "stop", "restart", "wait", "create", "delete"}) =>
             (/\ disp.raised.kind \notin {"RequiresSingleTarget", "UnknownVM", "UnknownCommand"}
              /\ disp.resolved = <<"min", "full">>))
    /\ [][disp'.raised.kind = "RequiresSingleTarget" => disp'.fs = disp.fs]_vars

\* C21 witness: console all was refused with files of both VMs in place
\* and ran on no VM.
C21_Witness ==
    /\ disp.command = "console"
    /\ disp.target = "all"
    /\ disp.raised.kind = "RequiresSingleTarget"
    /\ disp.executed = <<>>
    /\ disp.resolved = <<>>
    /\ disp.fs = [v \in {"min", "full"} |-> {"image", "marker"}]

\* C22: on a host of a supported architecture where the hypervisor binary
\* of that architecture or qemu-img is not on PATH, every subcommand ends
\* with the one missing-dependencies error that names each missing tool,
\* hypervisor first; nothing is dispatched - no status table, no VM
\* resolved, no VM operation - and no file of any VM changes.
C22_MissingDependencies ==
    /\ [](LET hv == IF disp.machine = "arm64" THEN "qemu-system-aarch64"
                    ELSE "qemu-system-x86_64"
              expected == (IF hv \in disp.path THEN <<>> ELSE <<hv>>) \o
                          (IF "qemu-img" \in disp.path THEN <<>> ELSE <<"qemu-img">>)
          IN (/\ disp.command \in {"status", "start", "stop", "restart", "wait", "ssh",
                                   "console", "log", "create", "delete"}
              /\ disp.machine \in {"x86_64", "AMD64", "arm64"}
              /\ expected # <<>>) =>
                (/\ disp.raised.kind = "MissingDependencies"
                 /\ disp.raised.names = expected
                 /\ disp.printed = <<>>
                 /\ disp.resolved = <<>>
                 /\ disp.executed = <<>>
                 /\ disp.pc = "idle"))
    /\ [][disp'.raised.kind = "MissingDependencies" =>
             (disp'.fs = disp.fs /\ files' = files /\ procs' = procs)]_vars

\* C22 witness: status on a host with neither tool on PATH named both
\* and printed nothing, the files of both VMs in place.
C22_Witness ==
    /\ disp.command = "status"
    /\ disp.machine = "x86_64"
    /\ disp.path = {"qemu-system-aarch64"}
    /\ disp.raised.kind = "MissingDependencies"
    /\ disp.raised.names = <<"qemu-system-x86_64", "qemu-img">>
    /\ disp.printed = <<>>
    /\ disp.fs = [v \in {"min", "full"} |-> {"image", "marker"}]

\* Both concurrent invocations have returned.
AllDone == \A t \in Threads : thr[t].pc = "done"

\* C23: once two concurrent stop invocations on one VM have both
\* returned, neither has raised, the pid marker, the boot-mode marker and
\* the console socket are gone and no hypervisor of the VM is alive.
C23_ConcurrentStops ==
    AllDone =>
       (/\ \A t \in Threads : thr[t].raised = None
        /\ pid_file = NoFile
        /\ state_file = NoFile
        /\ ~console_socket
        /\ alive = {})

\* Two concurrent stops but for the survivor of SIGKILL: whenever the
\* hypervisor is alive after both have returned, one of them sent SIGKILL
\* to it; the markers are gone and nothing was raised in every case.
ConcurrentStopsButForSurvivor ==
    AllDone =>
       (/\ \A t \in Threads : thr[t].raised = None
        /\ pid_file = NoFile
        /\ state_file = NoFile
        /\ ~console_socket
        /\ alive # {} => \E t \in Threads : thr[t].sigs = <<"TERM", "KILL">>)

\* C24: run with force false on a host that has the metadata file
\* returns changed = false with no builder made, no template rendered, no
\* process run, nothing transferred and no installer run; run with force
\* true never asks the host, never returns that way and, when it returns
\* outside check mode, has rendered every template and run the installer.
C24_SkipWhenInstalled ==
    inst.pc # "idle" =>
       (/\ (~inst.force /\ inst.installed) =>
              (/\ inst.pc = "returned"
               /\ ~inst.changed
               /\ inst.msg = "already installed"
               /\ ~inst.built
               /\ inst.commands = <<>>
               /\ inst.ignition_files = <<>>
               /\ inst.put_files = 0
               /\ inst.installs = 0)
        /\ inst.force =>
              (/\ ~inst.probed
               /\ inst.msg # "already installed"
               /\ (inst.pc = "returned" /\ ~inst.check_mode) =>
                     (/\ inst.ignition_files = inst.templates
                      /\ inst.installs = 1
                      /\ inst.installed_now)))

\* C24 witness: a run without force, outside check mode, with a template
\* that exists and both tools at hand, returned unchanged from a host
\* that has the metadata file.
C24_Witness ==
    /\ inst.pc = "returned"
    /\ ~inst.force
    /\ inst.installed
    /\ ~inst.check_mode
    /\ inst.templates = <<"a.bu">>
    /\ inst.existing = {"a.bu", "b.bu"}
    /\ inst.path = {"butane", "ignition-validate"}
    /\ inst.probed
    /\ ~inst.changed

\* C25: in check mode nothing is ever transferred to the host and the
\* installer is never run; a check-mode run that returns without taking
\* the host for installed has compiled and validated every template and
\* the base template.
C25_CheckMode ==
    inst.check_mode =>
       (/\ inst.put_files = 0
        /\ inst.installs = 0
        /\ ~inst.installed_now
        /\ (inst.pc = "returned" /\ inst.msg # "already installed") =>
              (/\ inst.msg = "would install"
               /\ \A t \in {inst.templates[i] : i \in 1..Len(inst.templates)} \cup {"base.bu"} :
                     \A tool \in {"templar", "butane", "ignition-validate"} :
                        \E i \in 1..Len(inst.commands) :
                           inst.commands[i] = [tool |-> tool, template |-> t, ok |-> TRUE]))

\* C25 witness: a check-mode run rendered and validated two templates and
\* the base template and returned without touching the host.
C25_Witness ==
    /\ inst.pc = "returned"
    /\ inst.check_mode
    /\ inst.force
    /\ inst.templates = <<"a.bu", "b.bu">>
    /\ Len(inst.commands) = 9
    /\ inst.msg = "would install"
    /\ inst.put_files = 0
    /\ inst.installs = 0

\* C26: a result run returns has changed = true exactly when the
\* installer ran successfully in that run.
C26_ChangedIffInstalled ==
    inst.pc = "returned" => (inst.changed <=> inst.installed_now)

\* C27: when a listed template is no file, render raises the
\* templates-not-found error naming every missing template in the order
\* listed, and no template - not even one that exists - has been passed
\* to templar, butane or ignition-validate.
C27_TemplatesChecked ==
    LET missing == SelectSeq(inst.templates, LAMBDA t : t \notin inst.existing)
    IN (inst.built /\ inst.pc # "render" /\ missing # <<>>) =>
          (/\ inst.commands = <<>>
           /\ inst.ignition_files = <<>>
           /\ inst.pc \in {"exit", "raised"}
           /\ inst.pc = "exit" => inst.pending = [kind |-> "TemplatesNotFound", names |-> missing]
           /\ inst.pc = "raised" => inst.raised = [kind |-> "TemplatesNotFound", names |-> missing])

\* C27 witness: of two listed templates that are no files both were
\* named and nothing was run.
C27_Witness ==
    /\ inst.pc = "raised"
    /\ inst.templates = <<"b.bu", "a.bu">>
    /\ inst.existing = {}
    /\ inst.raised = [kind |-> "TemplatesNotFound", names |-> <<"b.bu", "a.bu">>]
    /\ inst.commands = <<>>

C29_StopTerminates ==
    /\ [](/\ polls <= 20
          /\ Cardinality({i \in 1..Len(sigs) : sigs[i] = "KILL"}) <= 1)
    /\ [][(pc = "force" /\ act' = "force") =>
             (pc' \notin {"poll", "force"} /\ polls' = polls)]_vars
    /\ [][(pc = "poll" /\ act' = "poll" /\ pc' = "poll") => polls' = polls + 1]_vars
    /\ (pc \in {"poll", "force"}) ~> (pc \notin {"poll", "force"})

\* C29 witness: a stop returned after 20 polls and SIGKILL although the
\* hypervisor it signalled outlived both signals.
C29_Witness ==
    /\ pc = "idle"
    /\ caller = "stop"
    /\ act = "force"
    /\ polls = 20
    /\ sigs = <<"TERM", "KILL">>
    /\ stop_pid \in alive

\* C30: ssh and console raise the not-running error and attach nothing
\* unless the VM is running; console raises not-running for a VM that is
\* not running whether or not socat and the socket are there, the
\* socat error for a running VM without socat whether or not the socket
\* is there, the socket error only for a running VM with socat; and a
\* session is attached only to a running VM (console: with socat and the
\* socket).
C30_SessionsRequireRunning ==
    /\ [](sess.op # "none" =>
            (/\ ~sess.running => (sess.raised = "not running" /\ sess.attached = <<>> /\ ~sess.header)
             /\ sess.raised # None => (sess.attached = <<>> /\ ~sess.header)
             /\ sess.op = "ssh" => (sess.running => (sess.raised = None /\ sess.attached = <<"ssh">>))
             /\ sess.op = "console" =>
                   (/\ (sess.running /\ ~sess.socat) => sess.raised = "socat not found"
                    /\ (sess.running /\ sess.socat /\ ~sess.socket) =>
                          sess.raised = "console socket not found"
                    /\ (sess.running /\ sess.socat /\ sess.socket) =>
                          (sess.raised = None /\ sess.attached = <<"socat">>))))
    /\ [][(sess' # sess) =>
            (/\ sess'.running = IsRunning
             /\ sess'.op = "console" => sess'.socket = console_socket
             /\ sess'.raised = "not running" <=> ~IsRunning
             /\ UNCHANGED vm_vars)]_vars

\* C30 witness: console on a VM that is not running, with neither socat
\* nor the socket, raised the not-running error.
C30_Witness ==
    /\ sess.op = "console"
    /\ ~sess.running
    /\ ~sess.socat
    /\ ~sess.socket
    /\ sess.raised = "not running"
    /\ sess.attached = <<>>
    /\ system_disk

\* C31: once two concurrent start invocations on one VM have both
\* finished, one having launched the hypervisor and the other having
\* failed on the bound host port, every live hypervisor of the VM is named
\* by the pid marker and status reports running.
C31_ConcurrentStarts ==
    (/\ AllDone
     /\ \A t \in Threads : thr[t].op = "start"
     /\ \E t \in Threads : thr[t].launched # NoPid
     /\ \E t \in Threads : thr[t].raised = "PortInUse") =>
       (alive # {} => (Pid \in alive /\ Status = "running"))

\* C32: once a start invocation and a stop invocation that ran at once on
\* one VM have both finished, the boot-mode marker is there only if the
\* pid marker is.
C32_StartAndStop ==
    (/\ AllDone
     /\ \E t \in Threads : thr[t].op = "start"
     /\ \E t \in Threads : thr[t].op = "stop") =>
       (state_file # NoFile => pid_file # NoFile)

\* C33: every poll of a stop tests the process the stop sent SIGTERM to,
\* and the pid marker a stop that signalled removes is that of this
\* process: a hypervisor another invocation launched meanwhile is neither
\* waited on nor stripped of its marker.
C33_StopKeepsToItsProcess ==
    \A t \in Threads :
       (thr[t].op = "stop" /\ thr[t].sigs # <<>>) =>
          (/\ thr[t].polled \subseteq {thr[t].pid}
           /\ thr[t].unlinked \in {NoPid, thr[t].pid})

\* The race of a stop with the tail of a start: the start launched the
\* hypervisor on a VM without markers, the stop signalled it and cleaned
\* up, and the start wrote the boot-mode marker afterwards.
StopInsideStart ==
    \E t, u \in Threads :
       /\ AllDone
       /\ thr[t].op = "start"
       /\ thr[t].launched = 1
       /\ thr[u].op = "stop"
       /\ thr[u].pid = 1
       /\ thr[u].unlinked = 1
       /\ alive = {}
       /\ pid_file = NoFile
       /\ state_file # NoFile

\* The race of a start with the wait loop of a stop: the stop signalled
\* process 1 and polled it, process 1 ended, a start launched process 2,
\* and the stop polled process 2 and removed its pid marker.
StartInsideStop ==
    \E t, u \in Threads :
       /\ AllDone
       /\ thr[t].op = "stop"
       /\ thr[t].pid = 1
       /\ thr[t].polled = {1, 2}
       /\ thr[t].unlinked = 2
       /\ thr[u].op = "start"
       /\ thr[u].launched = 2
       /\ alive = {2}
       /\ pid_file = NoFile

\* C34: a command dispatched to "all" executes the VMs one after another
\* in the order of the configuration; the first VM whose operation raises
\* ends the dispatch with that error, no later VM being executed; every
\* step changes the files of the VM it executes only, so the later VMs'
\* files stay as they were and what was done to the earlier VMs stays
\* done.
C34_AbortOnFirstError ==
    /\ []((disp.target = "all" /\ disp.resolved # <<>>) =>
            (/\ disp.resolved = ConfigOrder
             /\ disp.executed = SubSeq(ConfigOrder, 1, Len(disp.executed))
             /\ disp.raised = NoDispatchError => disp.executed \o disp.queue = ConfigOrder
             /\ disp.raised # NoDispatchError =>
                   (/\ disp.pc = "idle"
                    /\ disp.queue = <<>>
                    /\ disp.executed # <<>>
                    /\ disp.raised.kind = "OperationError"
                    /\ disp.raised.about = disp.executed[Len(disp.executed)])))
    /\ [][/\ disp.pc = "run" =>
               (/\ disp'.executed = Append(disp.executed, Head(disp.queue))
                /\ \A v \in VMNames \ {Head(disp.queue)} : disp'.fs[v] = disp.fs[v])
          /\ disp.pc = "idle" => (disp'.fs = disp.fs /\ disp'.executed = <<>>)]_vars

\* C34 witness: start dispatched to "all" raised on the first VM after it
\* had changed that VM's files; the second VM was not executed and its
\* files are as they were.
C34_Witness ==
    /\ disp.command = "start"
    /\ disp.target = "all"
    /\ disp.resolved = <<"min", "full">>
    /\ disp.executed = <<"min">>
    /\ disp.raised.kind = "OperationError"
    /\ disp.raised.about = "min"
    /\ disp.pc = "idle"
    /\ disp.fs = [v \in {"min", "full"} |-> IF v = "min" THEN {"image"} ELSE {"image", "marker"}]

====
